---- MODULE Spec2Model ----
(***************************************************************************)
(* Model of the client-side orchestration of RonShih/0050-token-platform:  *)
(* the BondApp component (BondApp.tsx) and the 0050t App component         *)
(* (App.tsx).  One handler invocation is followed from the click to its    *)
(* last statement; every remote call (contract read or send) is a step     *)
(* whose outcome the ledger decides.                                       *)
(*                                                                         *)
(* Strings are sequences of one-character strings, so that parseFloat and  *)
(* the amount conversion are computed character by character.              *)
(***************************************************************************)
EXTENDS Integers, Sequences, FiniteSets, TLC

(***************************************************************************)
(* Bounds of the model.                                                    *)
(***************************************************************************)
\* raw token quantities a balance/allowance read returns: 0..MaxQty
MaxQty == 1
\* raw values a price read returns: 0..MaxPrice (0 is the "empty" price)
MaxPrice == 1

(***************************************************************************)
(* Program constants.                                                      *)
(***************************************************************************)
\* while (Date.now() - startTime < 10000)
PollTimeoutMs == 10000
\* setTimeout(resolve, 1000)
PollIntervalMs == 1000

NoAccount == "none"
Accounts == {"acctA", "acctB"}

\* what a decimals() read can return: USDt=2, AAPL50=0 (BondApp.tsx:204)
DecimalsValues == {0, 2}

\* what the bond balance read of step 2 can return: the code only tests it
\* against 0n, so "holds nothing" and "holds something" are the two cases
HolderBalances == {0, 1}

\* amounts a user can leave in an amount field
Amounts ==
  { <<>>,                      \* empty field
    <<"a">>,                   \* does not parse as a number
    <<"-", "1">>,              \* negative
    <<"0">>,                   \* zero
    <<"1">>,                   \* one whole token
    <<"0", ".", "0", "1">> }   \* one hundredth of a token

(***************************************************************************)
(* parseFloat and the conversion to base units.                            *)
(***************************************************************************)
DigitChars == <<"0", "1", "2", "3", "4", "5", "6", "7", "8", "9">>

IsDigit(c) == \E d \in 1..10 : DigitChars[d] = c

DigitVal(c) == (CHOOSE d \in 1..10 : DigitChars[d] = c) - 1

RECURSIVE Pow10(_)
Pow10(n) == IF n = 0 THEN 1 ELSE 10 * Pow10(n - 1)

\* index just after the run of digits of s that starts at index i
RECURSIVE DigitRunEnd(_, _)
DigitRunEnd(s, i) ==
  IF i <= Len(s) /\ IsDigit(s[i]) THEN DigitRunEnd(s, i + 1) ELSE i

\* the number written by the digits s[i..j-1]
RECURSIVE DigitsValue(_, _, _)
DigitsValue(s, i, j) ==
  IF j <= i THEN 0 ELSE 10 * DigitsValue(s, i, j - 1) + DigitVal(s[j - 1])

NaN == [nan |-> TRUE, neg |-> FALSE, mant |-> 0, scale |-> 0]

\* JavaScript parseFloat on the alphabet digits, ".", "-", "+" and other
\* characters: optional sign, digits, optional "." and digits; the longest
\* prefix of that shape is the number mant / 10^scale, no digit at all is NaN.
parseFloat(s) ==
  LET hasSign == Len(s) >= 1 /\ s[1] \in {"-", "+"}
      i0 == IF hasSign THEN 2 ELSE 1
      i1 == DigitRunEnd(s, i0)
      hasDot == i1 <= Len(s) /\ s[i1] = "."
      i2 == IF hasDot THEN DigitRunEnd(s, i1 + 1) ELSE i1
      nInt == i1 - i0
      nFrac == IF hasDot THEN i2 - (i1 + 1) ELSE 0
  IN  IF nInt + nFrac = 0 THEN NaN
      ELSE [nan |-> FALSE,
            neg |-> hasSign /\ s[1] = "-",
            mant |-> DigitsValue(s, i0, i1) * Pow10(nFrac)
                     + (IF hasDot THEN DigitsValue(s, i1 + 1, i2) ELSE 0),
            scale |-> nFrac]

\* parseFloat(x) <= 0 : false for NaN
NonPositive(v) == ~v.nan /\ (v.neg \/ v.mant = 0)

\* !amount || parseFloat(amount) <= 0
InvalidAmount(amount) == amount = <<>> \/ NonPositive(parseFloat(amount))

(***************************************************************************)
(* IEEE-754 double arithmetic, as far as the conversion needs it.  Natural *)
(* numbers beyond the range of the checker's integers are sequences of     *)
(* limbs in base 10000, least significant limb first.                      *)
(***************************************************************************)
Base == 10000

RECURSIVE BigNat(_)
BigNat(n) == IF n < Base THEN <<n>> ELSE <<n % Base>> \o BigNat(n \div Base)

\* without its most significant limbs that are zero
RECURSIVE BigTrim(_)
BigTrim(a) ==
  IF Len(a) > 1 /\ a[Len(a)] = 0 THEN BigTrim(SubSeq(a, 1, Len(a) - 1)) ELSE a

RECURSIVE MulCarry(_, _, _)
MulCarry(a, k, c) ==
  IF a = <<>> THEN (IF c = 0 THEN <<>> ELSE BigNat(c))
  ELSE LET x == Head(a) * k + c
       IN  <<x % Base>> \o MulCarry(Tail(a), k, x \div Base)

\* a * k, for 0 < k <= Base
BigMulSmall(a, k) == BigTrim(MulCarry(a, k, 0))

RECURSIVE DivRem(_, _)
DivRem(a, k) ==
  IF a = <<>> THEN [q |-> <<>>, r |-> 0]
  ELSE LET hi == DivRem(Tail(a), k)
           x == hi.r * Base + Head(a)
       IN  [q |-> <<x \div k>> \o hi.q, r |-> x % k]

\* quotient and remainder of a by k, for 0 < k <= Base
BigDivSmall(a, k) ==
  LET d == DivRem(a, k) IN [q |-> BigTrim(d.q), r |-> d.r]

RECURSIVE BigLess(_, _)
BigLess(a, b) ==
  IF Len(a) # Len(b) THEN Len(a) < Len(b)
  ELSE IF a = <<>> THEN FALSE
  ELSE LET n == Len(a)
       IN  IF a[n] # b[n] THEN a[n] < b[n]
           ELSE BigLess(SubSeq(a, 1, n - 1), SubSeq(b, 1, n - 1))

BigOdd(a) == a[1] % 2 = 1

RECURSIVE AddCarry(_, _)
AddCarry(a, c) ==
  IF c = 0 THEN a
  ELSE IF a = <<>> THEN <<c>>
  ELSE LET x == Head(a) + c IN <<x % Base>> \o AddCarry(Tail(a), x \div Base)

BigSucc(a) == AddCarry(a, 1)

RECURSIVE BigToInt(_)
BigToInt(a) == IF a = <<>> THEN 0 ELSE Head(a) + Base * BigToInt(Tail(a))

RECURSIVE BigPow2(_)
BigPow2(n) ==
  IF n = 0 THEN <<1>>
  ELSE IF n >= 10 THEN BigMulSmall(BigPow2(n - 10), 1024)
  ELSE BigMulSmall(BigPow2(n - 1), 2)

RECURSIVE BigMulPow10(_, _)
BigMulPow10(a, n) == IF n = 0 THEN a ELSE BigMulPow10(BigMulSmall(a, 10), n - 1)

\* a double has a 53-bit significand
Two52 == BigPow2(52)
Two53 == BigPow2(53)

\* round to nearest, ties to even: q with the bit below it and the rest
RoundNearestEven(q, roundBit, sticky) ==
  IF roundBit /\ (sticky \/ BigOdd(q)) THEN BigSucc(q) ELSE q

\* A = mant * 2^e with e the least exponent that makes A / D at least 2^52
\* (by steps of 2^10 as long as that stays below, then by doublings)
RECURSIVE ScaleUp(_, _, _)
ScaleUp(A, D, e) ==
  IF ~BigLess(BigDivSmall(A, D).q, Two52) THEN [A |-> A, e |-> e]
  ELSE IF BigLess(BigDivSmall(BigMulSmall(A, 1024), D).q, Two52)
  THEN ScaleUp(BigMulSmall(A, 1024), D, e + 10)
  ELSE ScaleUp(BigMulSmall(A, 2), D, e + 1)

\* the double nearest to mant / 10^scale (mant > 0, scale <= 4), as the
\* significand m and the exponent e of m / 2^e
ToDouble(mant, scale) ==
  LET D == Pow10(scale)
      up == ScaleUp(BigNat(mant), D, 0)
      twice == BigDivSmall(BigMulSmall(up.A, 2), D)
      half == BigDivSmall(twice.q, 2)
  IN  [m |-> RoundNearestEven(half.q, half.r = 1, twice.r # 0), e |-> up.e]

\* q halved until it has 53 bits: what is left, the last bit shifted out,
\* whether a lower bit was set, and the number of halvings
RECURSIVE ShiftDown(_, _, _, _)
ShiftDown(q, roundBit, sticky, t) ==
  IF BigLess(q, Two53) THEN [q |-> q, roundBit |-> roundBit, sticky |-> sticky, t |-> t]
  ELSE LET h == BigDivSmall(q, 2)
       IN  ShiftDown(h.q, h.r = 1, sticky \/ roundBit, t + 1)

\* the double product x * 10^n of the double x = m / 2^e
TimesPow10(x, n) ==
  LET down == ShiftDown(BigMulPow10(x.m, n), FALSE, FALSE, 0)
  IN  [m |-> RoundNearestEven(down.q, down.roundBit, down.sticky), e |-> x.e - down.t]

\* q / 2^n: its integer part, and whether a fraction is left
RECURSIVE Halvings(_, _, _)
Halvings(q, n, frac) ==
  IF n = 0 \/ q = <<0>> THEN [q |-> q, frac |-> frac]
  ELSE IF n >= 10
  THEN LET k == BigDivSmall(q, 1024) IN Halvings(k.q, n - 10, frac \/ k.r # 0)
  ELSE LET h == BigDivSmall(q, 2) IN Halvings(h.q, n - 1, frac \/ h.r = 1)

\* BigInt(Math.floor(parseFloat(amount) * (10 ** Number(decimals)))):
\* BigInt(NaN) throws a RangeError; otherwise parseFloat gives the nearest
\* double, the product is rounded to a double again, and floor is taken.
ToBaseUnits(amount, decimals) ==
  LET v == parseFloat(amount)
      product == TimesPow10(ToDouble(v.mant, v.scale), decimals)
      whole == Halvings(product.m, product.e, FALSE)
  IN  IF v.nan THEN [ok |-> FALSE, value |-> 0]
      ELSE IF v.mant = 0 THEN [ok |-> TRUE, value |-> 0]
      ELSE IF v.neg
           THEN [ok |-> TRUE,
                 value |-> 0 - (BigToInt(whole.q) + (IF whole.frac THEN 1 ELSE 0))]
           ELSE [ok |-> TRUE, value |-> BigToInt(whole.q)]

(***************************************************************************)
(* State.                                                                  *)
(***************************************************************************)
VARIABLES
  app,              \* the mounted component: "bond" (BondApp) or "t0050" (App)
  account,          \* useState account
  price,            \* useState price (a string)
  status,           \* useState status: the single StatusEvent slot
  inv,              \* locals and position of the handler invocation in flight
  calls,            \* remote calls issued by the current invocation, in order
  events,           \* StatusEvents published by the current invocation, in order
  others,           \* handler invocations suspended at an await, not followed now
  coupon,           \* useState of CouponSection (couponSection.tsx:31-35)
  now,              \* Math.floor(Date.now() / 1000)
  calc,             \* argument and result of a formatting/conversion function
  chainId,          \* useState chainId: the network the wallet reports
  section,          \* CouponSection as a component: props, timers, refreshes in flight
  approved,         \* the allowance the ledger holds for the subscription contract
  refresh           \* fetchData as overlapping calls: those in flight, the snapshot

vars ==
  <<app, account, price, status, inv, calls, events, others, coupon, now, calc,
    chainId, section, approved, refresh>>

\* what the handlers of BondApp and App never write
rest == <<others, coupon, now, calc, chainId, section, refresh>>

(***************************************************************************)
(* Display formatting.                                                     *)
(***************************************************************************)
RECURSIVE ToStr(_)
ToStr(n) ==
  IF n < 10 THEN <<DigitChars[n + 1]>>
  ELSE ToStr(n \div 10) \o <<DigitChars[(n % 10) + 1]>>

RECURSIVE padStart(_, _)
padStart(s, n) == IF Len(s) >= n THEN s ELSE padStart(<<"0">> \o s, n)

\* s.slice(0, n)
Slice0(s, n) == SubSeq(s, 1, IF n < Len(s) THEN n ELSE Len(s))

formatBigInt(value, decimals, displayDecimals) ==
  LET divisor == Pow10(decimals)
      integerPart == value \div divisor
      fractionalPart == value % divisor
      fractionalString == padStart(ToStr(fractionalPart), decimals)
  IN  IF fractionalPart = 0 THEN ToStr(integerPart)
      ELSE ToStr(integerPart) \o <<".">> \o Slice0(fractionalString, displayDecimals)

\* (Number(latestPriceRaw) / 100).toFixed(2)
PriceInDollars(raw) ==
  ToStr(raw \div 100) \o <<".">> \o padStart(ToStr(raw % 100), 2)

DefaultDisplayDecimals == 4

(***************************************************************************)
(* StatusEvents and remote calls.                                          *)
(***************************************************************************)
NoTx == 0
NoStatus == [type |-> "none", message |-> "", txHash |-> NoTx]
Ev(type, message, txHash) ==
  [type |-> type, message |-> message, txHash |-> txHash]

\* error.message passed through from the gateway
RemoteError == "remote error"
\* the RangeError BigInt() throws on NaN
RangeError == "RangeError: NaN cannot be converted to a BigInt"

Read(contract, method, who, ok, value) ==
  [type |-> "read", contract |-> contract, method |-> method,
   account |-> who, amount |-> 0, ok |-> ok, value |-> value]

Send(contract, method, from, amount, ok, tx) ==
  [type |-> "send", contract |-> contract, method |-> method,
   account |-> from, amount |-> amount, ok |-> ok, value |-> tx]

\* the token an operation moves: USDt for Subscribe, the product token for Redeem
FlowToken(a, op) ==
  IF op = "subscribe" THEN "usdt"
  ELSE IF a = "bond" THEN "bondToken" ELSE "t0050"

InvalidAmountMsg(a, op) ==
  IF a = "bond" THEN "Please enter a valid amount."
  ELSE IF op = "subscribe" THEN "Please enter a valid amount to subscribe."
  ELSE "Please enter a valid amount to redeem."

InsufficientBalanceMsg(a, op) ==
  IF op = "subscribe" THEN "Insufficient USDt balance."
  ELSE IF a = "bond" THEN "Insufficient AAPL50 balance."
  ELSE "Insufficient 0050t balance."

InsufficientAllowanceMsg(a, op) ==
  IF a = "bond" THEN "Insufficient allowance. Please approve first."
  ELSE IF op = "subscribe" THEN "Insufficient USDt allowance. Please approve first."
  ELSE "Insufficient 0050t allowance. Please approve first."

Idle ==
  [op |-> "none", pc |-> "idle", acct |-> NoAccount, amt |-> <<>>,
   isFirstTimeBuyer |-> FALSE, amountInWei |-> 0, latestPrice |-> 0,
   elapsed |-> 0, priceTx |-> NoTx, mainTx |-> NoTx, txCount |-> 0,
   fd |-> 0, token |-> "none"]

\* no approve has been accepted: the subscription contract may move nothing
NoApproval == {}

\* no fetchData is in flight and none has written the balances: runs are the
\* calls in flight, shown tells which call wrote the balances on display,
\* started counts the calls made
NoRefresh ==
  [runs |-> {}, shown |-> [acct |-> NoAccount, run |-> 0], started |-> 0]

\* no button of CouponSection has been clicked
NoManual ==
  [op |-> "none", pc |-> "idle", delayed |-> FALSE,
   seen |-> [nextClaimTime |-> 0, couponAmount |-> <<>>, canClaim |-> FALSE,
             timeRemaining |-> <<>>]]

\* CouponSection before it is rendered for an account
CouponUnmounted ==
  [nextClaimTime |-> 0, couponAmount |-> <<"0", ".", "0", "0">>,
   canClaim |-> FALSE, timeRemaining |-> <<>>, isInitialized |-> FALSE,
   pc |-> "unmounted", shownAt |-> 0, written |-> {}, manual |-> NoManual]

\* a clock reading, in seconds, at which the page is loaded
PageLoadTime == 1000000

\* export const SEPOLIA_CHAIN_ID = 11155111 (BOND_SEPOLIA_CHAIN_ID is the same)
SEPOLIA_CHAIN_ID == 11155111

\* the wallet has not answered eth_chainId yet: useState<number | null>(null)
NoChain == 0

\* no fetchCouponStatus, handler or timer callback of CouponSection has run
NoStep == [tick |-> "none", acct |-> NoAccount]

\* CouponSection not rendered: no state, no interval, no refresh in flight
SectionUnmounted ==
  [mounted |-> FALSE, bondBalance |-> 0,
   nextClaimTime |-> 0, isInitialized |-> FALSE, canClaim |-> FALSE, couponAmount |-> 0,
   statusInterval |-> 0, countdownInterval |-> 0,
   statusTimers |-> {}, countdownTimers |-> {},
   runs |-> {}, delayed |-> {}, claim |-> [pc |-> "idle", acct |-> NoAccount],
   last |-> NoStep]

NoCalc == [fn |-> "none"]

\* the state of App/BondApp once mounted, whatever the wallet has reported
Mounted ==
  /\ app \in {"bond", "t0050"}
  /\ price = IF app = "bond" THEN <<"0", ".", "0", "0">> ELSE <<"0">>
  /\ status = NoStatus
  /\ inv = Idle
  /\ calls = <<>>
  /\ events = <<>>
  /\ others = <<>>

Init ==
  /\ Mounted
  /\ account = NoAccount
  /\ coupon = CouponUnmounted
  /\ chainId = SEPOLIA_CHAIN_ID
  /\ section = SectionUnmounted
  /\ approved = NoApproval
  /\ refresh = NoRefresh
  /\ now = PageLoadTime
  /\ calc = NoCalc

\* no handler is running: the user and the wallet act between invocations
Quiet == inv.pc = "idle"

\* the allowance owner has given the subscription contract for token: value
\* is the amount; untouched says that an approve set it and that nothing has
\* been drawn from it since
Held(owner, token) ==
  IF \E g \in approved : g.owner = owner /\ g.token = token
  THEN CHOOSE g \in approved : g.owner = owner /\ g.token = token
  ELSE [owner |-> owner, token |-> token, value |-> 0, untouched |-> FALSE]

\* the ledger's side of a call (a sequence of zero or one call): an accepted
\* approve sets the allowance of the subscription contract, an accepted
\* subscribe/redeem has the contract draw the amount from it
Ledger(call) ==
  IF call = <<>> THEN approved
  ELSE LET c == call[1]
           moved == FlowToken(app, c.method)
           held == Held(c.account, moved)
       IN  IF c.type # "send" \/ ~c.ok THEN approved
           ELSE IF c.method = "approve"
           THEN (approved \ {Held(c.account, c.contract)})
                  \cup {[owner |-> c.account, token |-> c.contract,
                         value |-> c.amount, untouched |-> TRUE]}
           ELSE IF c.contract = "subscription" /\ held \in approved
                   /\ held.value >= c.amount
           THEN (approved \ {held})
                  \cup (IF held.value = c.amount THEN {}
                        ELSE {[held EXCEPT !.value = @ - c.amount,
                                           !.untouched = FALSE]})
           ELSE approved

\* mutation: an error in the slot is not replaced by later events
StepKeepsError(newInv, call, evs) ==
  /\ inv' = newInv
  /\ calls' = calls \o call
  /\ events' = events \o evs
  /\ status' = IF evs = <<>> \/ status.type = "error" THEN status ELSE evs[Len(evs)]
  /\ UNCHANGED rest
  /\ approved' = Ledger(call)

\* one step of a handler: its new locals, the remote call it made (a
\* sequence of zero or one call) and the StatusEvents it published, in order
Step(newInv, call, evs) ==
  /\ inv' = newInv
  /\ calls' = calls \o call
  /\ events' = events \o evs
  /\ status' = IF evs = <<>> THEN status ELSE evs[Len(evs)]
  /\ UNCHANGED rest
  /\ approved' = Ledger(call)

\* the first step of a handler: as Step, on a fresh record of calls and events
Begin(newInv, evs) ==
  /\ inv' = newInv
  /\ calls' = <<>>
  /\ events' = evs
  /\ status' = IF evs = <<>> THEN status ELSE evs[Len(evs)]
  /\ UNCHANGED rest
  /\ UNCHANGED approved

\* the handler has run its last statement: its promise settles and its
\* locals, and the record kept of it, are dropped
HandlerReturns ==
  /\ inv.pc = "done"
  /\ inv' = Idle
  /\ calls' = <<>>
  /\ events' = <<>>
  /\ UNCHANGED <<app, account, price, status>>
  /\ UNCHANGED rest
  /\ UNCHANGED approved

(***************************************************************************)
(* fetchData: the balance/price refresh.                                   *)
(***************************************************************************)
\* What the reads of fetchData return only feeds the balance display strings,
\* which are not part of this state: they are recorded with this value.
Unobserved == 0 - 1

\* the four reads that precede setBalances, in the order of the component
FetchOrder(a) ==
  IF a = "bond"
  THEN << <<"usdt", "balanceOf">>, <<"usdt", "decimals">>,
          <<"bondToken", "balanceOf">>, <<"bondToken", "decimals">> >>
  ELSE << <<"usdt", "balanceOf">>, <<"t0050", "balanceOf">>,
          <<"usdt", "decimals">>, <<"t0050", "decimals">> >>

\* the wallet reports an account (connection, account switch, disconnection);
\* the refresh effect then starts fetchData for a connected account
AccountsChanged(a) ==
  /\ Quiet
  /\ a # account
  /\ account' = a
  /\ IF a # NoAccount
     THEN Begin([Idle EXCEPT !.op = "fetchData", !.pc = "fd_read", !.acct = a], <<>>)
     ELSE Begin(Idle, <<>>)
  /\ UNCHANGED <<app, price>>

FetchRead ==
  /\ inv.pc = "fd_read"
  /\ LET k == inv.fd + 1
         contract == FetchOrder(app)[k][1]
         method == FetchOrder(app)[k][2]
         who == IF method = "decimals" THEN NoAccount ELSE inv.acct
     IN  \/ Step([inv EXCEPT !.fd = k,
                            !.pc = IF k = 4 THEN "fd_price" ELSE "fd_read"],
                 <<Read(contract, method, who, TRUE, Unobserved)>>, <<>>)
         \/ Step([inv EXCEPT !.pc = "done"],
                 <<Read(contract, method, who, FALSE, 0)>>, <<>>)
  /\ UNCHANGED <<app, account, price>>

FetchPrice ==
  /\ inv.pc = "fd_price"
  /\ \/ \E v \in 0..MaxPrice :
          /\ Step([inv EXCEPT !.pc = "done"],
                  <<Read("priceOracle", "getLatestPriceUSD", NoAccount, TRUE, v)>>, <<>>)
          /\ price' = IF app = "bond" THEN ToStr(v) ELSE PriceInDollars(v)
     \/ /\ Step([inv EXCEPT !.pc = "done"],
                <<Read("priceOracle", "getLatestPriceUSD", NoAccount, FALSE, 0)>>, <<>>)
        /\ price' = IF app = "bond" THEN price ELSE <<"0", ".", "0", "0">>
  /\ UNCHANGED <<app, account>>

(***************************************************************************)
(* handleUpdatePrice (BondApp): request a price update, then poll.         *)
(***************************************************************************)
\* mutation: Redeem goes through the holder classification of Subscribe
ResumePcRedeemAsSubscribe(op) ==
  CASE op = "subscribe" -> "sub_holder"
    [] op = "redeem" -> "sub_canClaim"
    [] OTHER -> "done"

\* where the caller of handleUpdatePrice goes on once it has returned
ResumePc(op) ==
  CASE op = "subscribe" -> "sub_holder"
    [] op = "redeem" -> "decimals"
    [] OTHER -> "done"

\* what the caller publishes before its next remote call
ResumeEvents(op) ==
  IF op = "redeem" THEN <<Ev("loading", "2/3: Processing redemption...", NoTx)>>
  ELSE <<>>

\* handleUpdatePrice returns to its caller after publishing ev; it never throws
UpdatePriceReturn(newInv, call, ev) ==
  Step([newInv EXCEPT !.pc = ResumePc(inv.op)], call, <<ev>> \o ResumeEvents(inv.op))

RequestingPrice == Ev("loading", "Requesting price update...", NoTx)

StartUpdatePrice ==
  /\ Quiet
  /\ account # NoAccount
  /\ app = "bond"
  /\ Begin([Idle EXCEPT !.op = "updatePrice", !.pc = "up_send", !.acct = account],
           <<RequestingPrice>>)
  /\ UNCHANGED <<app, account, price>>

UpdatePriceSend ==
  /\ inv.pc = "up_send"
  /\ LET tx == inv.txCount + 1 IN
     \/ Step([inv EXCEPT !.pc = "up_read0", !.txCount = tx, !.priceTx = tx, !.elapsed = 0],
             <<Send("priceOracle", "requestPriceUpdate", inv.acct, 0, TRUE, tx)>>,
             <<Ev("loading", "Price update requested! Waiting for oracle...", tx)>>)
     \/ UpdatePriceReturn(inv,
             <<Send("priceOracle", "requestPriceUpdate", inv.acct, 0, FALSE, NoTx)>>,
             Ev("error", RemoteError, NoTx))
  /\ UNCHANGED <<app, account, price>>

\* setPrice(latestPrice); setStatus(success); return
UpdatePriceFinish(newInv, call) ==
  /\ UpdatePriceReturn(newInv, call, Ev("success", "Price updated!", inv.priceTx))
  /\ price' = ToStr(newInv.latestPrice)

\* the read made right after the send; the loop condition is tested next
UpdatePriceFirstRead ==
  /\ inv.pc = "up_read0"
  /\ \/ \E v \in 0..MaxPrice :
          LET call == <<Read("priceOracle", "getLatestPriceUSD", NoAccount, TRUE, v)>>
              got == [inv EXCEPT !.latestPrice = v]
          IN  IF inv.elapsed < PollTimeoutMs
              THEN Step([got EXCEPT !.pc = "up_sleep"], call, <<>>) /\ UNCHANGED price
              ELSE UpdatePriceFinish(got, call)
     \/ /\ UpdatePriceReturn(inv,
               <<Read("priceOracle", "getLatestPriceUSD", NoAccount, FALSE, 0)>>,
               Ev("error", RemoteError, NoTx))
        /\ UNCHANGED price
  /\ UNCHANGED <<app, account>>

\* mutation: the pause between two reads is half the poll interval
UpdatePriceSleepHalf ==
  /\ inv.pc = "up_sleep"
  /\ Step([inv EXCEPT !.pc = "up_poll", !.elapsed = @ + (PollIntervalMs \div 2)], <<>>, <<>>)
  /\ UNCHANGED <<app, account, price>>

\* await new Promise(resolve => setTimeout(resolve, 1000))
UpdatePriceSleep ==
  /\ inv.pc = "up_sleep"
  /\ Step([inv EXCEPT !.pc = "up_poll", !.elapsed = @ + PollIntervalMs], <<>>, <<>>)
  /\ UNCHANGED <<app, account, price>>

\* the read inside the loop: a truthy price breaks, otherwise test the clock
UpdatePricePoll ==
  /\ inv.pc = "up_poll"
  /\ \/ \E v \in 0..MaxPrice :
          LET call == <<Read("priceOracle", "getLatestPriceUSD", NoAccount, TRUE, v)>>
              got == [inv EXCEPT !.latestPrice = v]
          IN  IF v = 0 /\ inv.elapsed < PollTimeoutMs
              THEN Step([got EXCEPT !.pc = "up_sleep"], call, <<>>) /\ UNCHANGED price
              ELSE UpdatePriceFinish(got, call)
     \/ /\ UpdatePriceReturn(inv,
               <<Read("priceOracle", "getLatestPriceUSD", NoAccount, FALSE, 0)>>,
               Ev("error", RemoteError, NoTx))
        /\ UNCHANGED price
  /\ UNCHANGED <<app, account>>

(***************************************************************************)
(* handleSubscribe and handleRedeem.                                       *)
(***************************************************************************)
\* the catch of the handler: setStatus(error); the handler ends
Fatal(call) ==
  Step([inv EXCEPT !.pc = "done"], call, <<Ev("error", RemoteError, NoTx)>>)

\* handleSubscribe up to its first await
handleSubscribe(subscribeAmount) ==
  /\ Quiet
  /\ LET me == [Idle EXCEPT !.op = "subscribe", !.acct = account, !.amt = subscribeAmount]
     IN  IF account = NoAccount \/ InvalidAmount(subscribeAmount)
         THEN Begin([me EXCEPT !.pc = "done"],
                    <<Ev("error", InvalidAmountMsg(app, "subscribe"), NoTx)>>)
         ELSE IF app = "bond"
         THEN Begin([me EXCEPT !.pc = "up_send"],
                    <<Ev("loading", "1/4: Updating bond price...", NoTx), RequestingPrice>>)
         ELSE IF NonPositive(parseFloat(price))
         THEN Begin([me EXCEPT !.pc = "done"],
                    <<Ev("error", "Price is not available. Please update price first.", NoTx)>>)
         ELSE Begin([me EXCEPT !.pc = "decimals"],
                    <<Ev("loading", "Processing subscription...", NoTx)>>)
  /\ UNCHANGED <<app, account, price>>

\* the user leaves subscribeAmount in the amount field and presses Subscribe
StartSubscribe(subscribeAmount) ==
  /\ account # NoAccount
  /\ handleSubscribe(subscribeAmount)

\* the user leaves redeemAmount in the amount field and presses Redeem
StartRedeem(redeemAmount) ==
  /\ Quiet
  /\ account # NoAccount
  /\ LET me == [Idle EXCEPT !.op = "redeem", !.acct = account, !.amt = redeemAmount]
     IN  IF account = NoAccount \/ InvalidAmount(redeemAmount)
         THEN Begin([me EXCEPT !.pc = "done"],
                    <<Ev("error", InvalidAmountMsg(app, "redeem"), NoTx)>>)
         ELSE IF app = "bond"
         THEN Begin([me EXCEPT !.pc = "up_send"],
                    <<Ev("loading", "1/3: Updating price...", NoTx), RequestingPrice>>)
         ELSE Begin([me EXCEPT !.pc = "decimals"],
                    <<Ev("loading", "Processing redemption...", NoTx)>>)
  /\ UNCHANGED <<app, account, price>>

Processing == Ev("loading", "3/4: Processing subscription...", NoTx)

\* step 2 of Subscribe: the bond balance read that classifies the holder
ClassifyHolder ==
  /\ inv.pc = "sub_holder"
  /\ \/ \E v \in HolderBalances :
          LET call == <<Read("bondToken", "balanceOf", inv.acct, TRUE, v)>>
              me == [inv EXCEPT !.isFirstTimeBuyer = (v = 0)]
          IN  IF v = 0
              THEN Step([me EXCEPT !.pc = "decimals"], call, <<Processing>>)
              ELSE Step([me EXCEPT !.pc = "sub_canClaim"], call, <<>>)
     \/ Fatal(<<Read("bondToken", "balanceOf", inv.acct, FALSE, 0)>>)
  /\ UNCHANGED <<app, account, price>>

\* mutation: the coupon is claimed whatever canClaim returned
CanClaimReadIgnored ==
  /\ inv.pc = "sub_canClaim"
  /\ \/ \E v \in {0, 1} :
          Step([inv EXCEPT !.pc = "sub_claim"],
               <<Read("couponPayment", "canClaim", inv.acct, TRUE, v)>>,
               <<Ev("loading", "2/4: Claiming available coupon...", NoTx)>>)
     \/ Fatal(<<Read("couponPayment", "canClaim", inv.acct, FALSE, 0)>>)
  /\ UNCHANGED <<app, account, price>>

\* step 3: canClaim(account) is read outside the inner try
CanClaimRead ==
  /\ inv.pc = "sub_canClaim"
  /\ \/ Step([inv EXCEPT !.pc = "sub_claim"],
             <<Read("couponPayment", "canClaim", inv.acct, TRUE, 1)>>,
             <<Ev("loading", "2/4: Claiming available coupon...", NoTx)>>)
     \/ Step([inv EXCEPT !.pc = "decimals"],
             <<Read("couponPayment", "canClaim", inv.acct, TRUE, 0)>>,
             <<Processing>>)
     \/ Fatal(<<Read("couponPayment", "canClaim", inv.acct, FALSE, 0)>>)
  /\ UNCHANGED <<app, account, price>>

\* mutation: claimCoupon() without its own try/catch
ClaimCouponSendUncaught ==
  /\ inv.pc = "sub_claim"
  /\ LET tx == inv.txCount + 1 IN
     \/ Step([inv EXCEPT !.pc = "sub_claimed", !.txCount = tx],
             <<Send("couponPayment", "claimCoupon", inv.acct, 0, TRUE, tx)>>,
             <<Ev("success", "Coupon claimed! Proceeding...", tx)>>)
     \/ Fatal(<<Send("couponPayment", "claimCoupon", inv.acct, 0, FALSE, NoTx)>>)
  /\ UNCHANGED <<app, account, price>>

\* step 3: claimCoupon() inside its own try/catch
ClaimCouponSend ==
  /\ inv.pc = "sub_claim"
  /\ LET tx == inv.txCount + 1 IN
     \/ Step([inv EXCEPT !.pc = "sub_claimed", !.txCount = tx],
             <<Send("couponPayment", "claimCoupon", inv.acct, 0, TRUE, tx)>>,
             <<Ev("success", "Coupon claimed! Proceeding...", tx)>>)
     \/ Step([inv EXCEPT !.pc = "decimals"],
             <<Send("couponPayment", "claimCoupon", inv.acct, 0, FALSE, NoTx)>>,
             <<Processing>>)
  /\ UNCHANGED <<app, account, price>>

\* the 2 s pause after a claim that went through
ClaimSettled ==
  /\ inv.pc = "sub_claimed"
  /\ Step([inv EXCEPT !.pc = "decimals"], <<>>, <<Processing>>)
  /\ UNCHANGED <<app, account, price>>

\* decimals() of the token, then the conversion of the amount to base units
ReadDecimals ==
  /\ inv.pc = "decimals"
  /\ LET token == FlowToken(app, inv.op) IN
         \/ Fatal(<<Read(token, "decimals", NoAccount, FALSE, 0)>>)
         \/ \E d \in DecimalsValues :
              LET units == ToBaseUnits(inv.amt, d) IN
              IF units.ok
              THEN Step([inv EXCEPT !.pc = "balance", !.amountInWei = units.value],
                        <<Read(token, "decimals", NoAccount, TRUE, d)>>, <<>>)
              ELSE Step([inv EXCEPT !.pc = "done"],
                        <<Read(token, "decimals", NoAccount, TRUE, d)>>,
                        <<Ev("error", RangeError, NoTx)>>)
  /\ UNCHANGED <<app, account, price>>

\* mutation: the operands of the balance comparison swapped
BalanceTooLowSwapped(balance, amount) == amount < balance

\* BigInt(userBalance) < amount
BalanceTooLow(balance, amount) == balance < amount

\* mutation: the allowance comparison off by one
AllowanceTooLowOffByOne(allowance, amount) == allowance + 1 < amount

\* BigInt(allowance) < amount
AllowanceTooLow(allowance, amount) == allowance < amount

\* mutation: the balance is read for the account connected now, not for the
\* one the handler closed over
ReadBalanceLiveAccount ==
  /\ inv.pc = "balance"
  /\ LET token == FlowToken(app, inv.op) IN
     \/ \E v \in 0..MaxQty :
          LET call == <<Read(token, "balanceOf", account, TRUE, v)>> IN
          IF BalanceTooLow(v, inv.amountInWei)
          THEN Step([inv EXCEPT !.pc = "done"], call,
                    <<Ev("error", InsufficientBalanceMsg(app, inv.op), NoTx)>>)
          ELSE Step([inv EXCEPT !.pc = "allowance"], call, <<>>)
     \/ Fatal(<<Read(token, "balanceOf", account, FALSE, 0)>>)
  /\ UNCHANGED <<app, account, price>>

\* BigInt(userBalance) < amount guards the flow (BondApp.tsx:264-268, 326-330)
ReadBalance ==
  /\ inv.pc = "balance"
  /\ LET token == FlowToken(app, inv.op) IN
     \/ \E v \in 0..MaxQty :
          LET call == <<Read(token, "balanceOf", inv.acct, TRUE, v)>> IN
          IF BalanceTooLow(v, inv.amountInWei)
          THEN Step([inv EXCEPT !.pc = "done"], call,
                    <<Ev("error", InsufficientBalanceMsg(app, inv.op), NoTx)>>)
          ELSE Step([inv EXCEPT !.pc = "allowance"], call, <<>>)
     \/ Fatal(<<Read(token, "balanceOf", inv.acct, FALSE, 0)>>)
  /\ UNCHANGED <<app, account, price>>

\* mutation: the return after the allowance error is missing
ReadAllowanceNoReturn ==
  /\ inv.pc = "allowance"
  /\ LET token == FlowToken(app, inv.op) IN
     \/ \E v \in 0..MaxQty :
          LET call == <<Read(token, "allowance", inv.acct, TRUE, v)>> IN
          IF AllowanceTooLow(v, inv.amountInWei)
          THEN Step([inv EXCEPT !.pc = "send"], call,
                    <<Ev("error", InsufficientAllowanceMsg(app, inv.op), NoTx)>>)
          ELSE Step([inv EXCEPT !.pc = "send"], call, <<>>)
     \/ Fatal(<<Read(token, "allowance", inv.acct, FALSE, 0)>>)
  /\ UNCHANGED <<app, account, price>>

\* the allowance read and its test, the read returning one of answers
AllowanceCheck(answers) ==
  /\ inv.pc = "allowance"
  /\ LET token == FlowToken(app, inv.op) IN
     \/ \E v \in answers :
          LET call == <<Read(token, "allowance", inv.acct, TRUE, v)>> IN
          IF AllowanceTooLow(v, inv.amountInWei)
          THEN Step([inv EXCEPT !.pc = "done"], call,
                    <<Ev("error", InsufficientAllowanceMsg(app, inv.op), NoTx)>>)
          ELSE Step([inv EXCEPT !.pc = "send"], call, <<>>)
     \/ Fatal(<<Read(token, "allowance", inv.acct, FALSE, 0)>>)
  /\ UNCHANGED <<app, account, price>>

\* the allowance is whatever the ledger holds, unknown to the page
ReadAllowance == AllowanceCheck(0..MaxQty)

SuccessMsg(a, op) ==
  IF op = "subscribe" THEN "Subscription successful!"
  ELSE IF a = "bond" THEN "3/3: Redemption successful!"
  ELSE "Redemption successful!"

\* the operation succeeded: publish, then fetchData() refreshes the display
\* (awaited in BondApp, started and left running in App)
Completed(newInv, call, evs) ==
  Step([newInv EXCEPT !.pc = "fd_read", !.fd = 0], call, evs)

\* mutation: the coupon schedule is initialized whatever the holder class
SendTransferInitAlways ==
  /\ inv.pc = "send"
  /\ LET tx == inv.txCount + 1
         ok == <<Send("subscription", inv.op, inv.acct, inv.amountInWei, TRUE, tx)>>
         me == [inv EXCEPT !.txCount = tx, !.mainTx = tx]
     IN  \/ IF app = "bond" /\ inv.op = "subscribe"
            THEN Step([me EXCEPT !.pc = "sub_init"], ok,
                      <<Ev("loading", "4/4: Initializing coupon schedule...", NoTx)>>)
            ELSE Completed(me, ok, <<Ev("success", SuccessMsg(app, inv.op), tx)>>)
         \/ Fatal(<<Send("subscription", inv.op, inv.acct, inv.amountInWei, FALSE, NoTx)>>)
  /\ UNCHANGED <<app, account, price>>

\* mutation: a rejected subscribe/redeem is sent again
SendTransferRetries ==
  /\ inv.pc = "send"
  /\ LET tx == inv.txCount + 1
         ok == <<Send("subscription", inv.op, inv.acct, inv.amountInWei, TRUE, tx)>>
         me == [inv EXCEPT !.txCount = tx, !.mainTx = tx]
     IN  \/ IF app = "bond" /\ inv.op = "subscribe" /\ inv.isFirstTimeBuyer
            THEN Step([me EXCEPT !.pc = "sub_init"], ok,
                      <<Ev("loading", "4/4: Initializing coupon schedule...", NoTx)>>)
            ELSE Completed(me, ok, <<Ev("success", SuccessMsg(app, inv.op), tx)>>)
         \/ Step(inv, <<Send("subscription", inv.op, inv.acct, inv.amountInWei, FALSE, NoTx)>>,
                 <<>>)
  /\ UNCHANGED <<app, account, price>>

\* subscribe(amount) / redeem(amount) on the subscription contract
SendTransfer ==
  /\ inv.pc = "send"
  /\ LET tx == inv.txCount + 1
         ok == <<Send("subscription", inv.op, inv.acct, inv.amountInWei, TRUE, tx)>>
         me == [inv EXCEPT !.txCount = tx, !.mainTx = tx]
     IN  \/ IF app = "bond" /\ inv.op = "subscribe" /\ inv.isFirstTimeBuyer
            THEN Step([me EXCEPT !.pc = "sub_init"], ok,
                      <<Ev("loading", "4/4: Initializing coupon schedule...", NoTx)>>)
            ELSE Completed(me, ok, <<Ev("success", SuccessMsg(app, inv.op), tx)>>)
         \/ Fatal(<<Send("subscription", inv.op, inv.acct, inv.amountInWei, FALSE, NoTx)>>)
  /\ UNCHANGED <<app, account, price>>

\* mutation: a failed initializeClaim reaches the catch of the handler
InitializeClaimSendUncaught ==
  /\ inv.pc = "sub_init"
  /\ LET tx == inv.txCount + 1 IN
     \/ Completed([inv EXCEPT !.txCount = tx],
                  <<Send("couponPayment", "initializeClaim", inv.acct, 0, TRUE, tx)>>,
                  <<Ev("success", "Subscription successful! Coupon schedule set.", inv.mainTx)>>)
     \/ Fatal(<<Send("couponPayment", "initializeClaim", inv.acct, 0, FALSE, NoTx)>>)
  /\ UNCHANGED <<app, account, price>>

\* step 5 of the code (7 of the design): initializeClaim in its own try/catch
InitializeClaimSend ==
  /\ inv.pc = "sub_init"
  /\ LET tx == inv.txCount + 1 IN
     \/ Completed([inv EXCEPT !.txCount = tx],
                  <<Send("couponPayment", "initializeClaim", inv.acct, 0, TRUE, tx)>>,
                  <<Ev("success", "Subscription successful! Coupon schedule set.", inv.mainTx)>>)
     \/ Completed(inv,
                  <<Send("couponPayment", "initializeClaim", inv.acct, 0, FALSE, NoTx)>>,
                  <<Ev("success", "Subscription successful! (Coupon init pending)", inv.mainTx)>>)
  /\ UNCHANGED <<app, account, price>>

Next ==
  \/ HandlerReturns
  \/ \E a \in Accounts \cup {NoAccount} : AccountsChanged(a)
  \/ FetchRead
  \/ FetchPrice
  \/ StartUpdatePrice
  \/ UpdatePriceSend
  \/ UpdatePriceFirstRead
  \/ UpdatePriceSleep
  \/ UpdatePricePoll
  \/ \E a \in Amounts : StartSubscribe(a)
  \/ \E a \in Amounts : StartRedeem(a)
  \/ ClassifyHolder
  \/ CanClaimRead
  \/ ClaimCouponSend
  \/ ClaimSettled
  \/ ReadDecimals
  \/ ReadBalance
  \/ ReadAllowance
  \/ SendTransfer
  \/ InitializeClaimSend

Spec == Init /\ [][Next]_vars

(***************************************************************************)
(* Handlers in flight together.  A handler that awaits a remote call has   *)
(* left the event loop free: the page handles the next click, and the      *)
(* responses of the pending calls arrive in any order.  The invocation     *)
(* followed step by step is inv; the suspended ones wait in others.        *)
(***************************************************************************)
\* suspended invocations kept beside the one followed
MaxSuspended == 1

\* remote calls a handler has completed when it is left suspended
MaxCallsBeforeSuspend == 0

InFlight(i) == i.pc \notin {"idle", "done"}

MaySuspend == InFlight(inv) /\ Len(calls) <= MaxCallsBeforeSuspend

\* the followed handler is left waiting for its remote call
Suspend ==
  /\ MaySuspend
  /\ Len(others) < MaxSuspended
  /\ others' = Append(others, [inv |-> inv, calls |-> calls, events |-> events])
  /\ inv' = Idle
  /\ calls' = <<>>
  /\ events' = <<>>
  /\ UNCHANGED <<app, account, price, status, coupon, now, calc, chainId, section, approved, refresh>>

\* the response awaited by suspended invocation k is the next to arrive
Resume(k) ==
  /\ inv.pc = "idle" \/ MaySuspend
  /\ k \in 1..Len(others)
  /\ inv' = others[k].inv
  /\ calls' = others[k].calls
  /\ events' = others[k].events
  /\ others' =
       IF InFlight(inv)
       THEN [others EXCEPT ![k] = [inv |-> inv, calls |-> calls, events |-> events]]
       ELSE [j \in 1..(Len(others) - 1) |-> IF j < k THEN others[j] ELSE others[j + 1]]
  /\ UNCHANGED <<app, account, price, status, coupon, now, calc, chainId, section, approved, refresh>>

\* what the amount fields hold while the clicks overlap
OverlapAmounts == { <<"1">> }

\* the page with one account connected, nothing pending
Connected ==
  /\ Mounted
  /\ account = "acctA"
  /\ coupon = CouponUnmounted
  /\ chainId = SEPOLIA_CHAIN_ID
  /\ section = SectionUnmounted
  /\ approved = NoApproval
  /\ refresh = NoRefresh
  /\ now = PageLoadTime
  /\ calc = NoCalc

\* BondApp with one account connected, no allowance given yet
BondConnected == Connected /\ app = "bond"

\* the steps of the handlers under way: each performs the remote call awaited
HandlerSteps ==
  \/ FetchRead
  \/ FetchPrice
  \/ UpdatePriceSend
  \/ UpdatePriceFirstRead
  \/ UpdatePriceSleep
  \/ UpdatePricePoll
  \/ ClassifyHolder
  \/ CanClaimRead
  \/ ClaimCouponSend
  \/ ClaimSettled
  \/ ReadDecimals
  \/ ReadBalance
  \/ ReadAllowance
  \/ SendTransfer
  \/ InitializeClaimSend

NextConcurrent ==
  \/ HandlerReturns
  \/ \E a \in OverlapAmounts : StartSubscribe(a)
  \/ \E a \in OverlapAmounts : StartRedeem(a)
  \/ HandlerSteps
  \/ Suspend
  \/ \E k \in 1..MaxSuspended : Resume(k)

SpecConcurrent == Connected /\ [][NextConcurrent]_vars

\* the remote call awaited at this position names an account (a balance,
\* allowance or coupon read, a send).  An account change that arrives while
\* the handler sleeps or awaits a call without account is, for the handler,
\* one that arrives at the next of these positions.
NamesAccount(pc) ==
  pc \in {"up_send", "sub_holder", "sub_canClaim", "sub_claim", "balance",
          "allowance", "send", "sub_init", "fd_read"}

\* accountsChanged while Subscribe or Redeem waits for a remote call: the
\* handler keeps the account of the render it was created in; the refresh
\* effect starts fetchData for the new account, which waits in others (one
\* account change is followed per handler in flight)
AccountsChangedInFlight(a) ==
  /\ inv.op \in {"subscribe", "redeem"}
  /\ NamesAccount(inv.pc)
  /\ a # account
  /\ account' = a
  /\ others = <<>>
  /\ others' = <<[inv |-> [Idle EXCEPT !.op = "fetchData", !.pc = "fd_read", !.acct = a],
                  calls |-> <<>>, events |-> <<>>]>>
  /\ UNCHANGED <<app, price, status, inv, calls, events, coupon, now, calc, chainId,
                 section, approved, refresh>>

\* the page under account changes: one handler is followed to its end, then
\* a refresh that was started meanwhile; the wallet is disconnected between
\* handlers, and switches to another account at any time
NextAccounts ==
  \/ HandlerReturns
  \/ \E a \in Accounts \cup {NoAccount} : AccountsChanged(a)
  \/ \E a \in Accounts : AccountsChangedInFlight(a)
  \/ \E a \in OverlapAmounts : StartSubscribe(a)
  \/ \E a \in OverlapAmounts : StartRedeem(a)
  \/ HandlerSteps
  \/ Quiet /\ Resume(1)

SpecAccounts == BondConnected /\ [][NextAccounts]_vars

(***************************************************************************)
(* The status slot under the handlers and the banner's close button.       *)
(***************************************************************************)
\* StatusBanner onClose: setStatus(null); the button exists while a
\* StatusEvent is shown
CloseBanner ==
  /\ status # NoStatus
  /\ status' = NoStatus
  /\ UNCHANGED <<app, account, price, inv, calls, events>>
  /\ UNCHANGED rest
  /\ UNCHANGED approved

NextStatus ==
  \/ HandlerReturns
  \/ StartUpdatePrice
  \/ \E a \in OverlapAmounts : StartSubscribe(a)
  \/ \E a \in OverlapAmounts : StartRedeem(a)
  \/ HandlerSteps
  \/ CloseBanner

SpecStatus == Connected /\ [][NextStatus]_vars

(***************************************************************************)
(* The network of the wallet (BondApp.tsx:78, 87-88, 105-108, 149-154,     *)
(* 366-373): chainChanged sets chainId; on another network than Sepolia    *)
(* the component renders the "Wrong Network" page in place of the forms,   *)
(* and the refresh effect does not call fetchData.                         *)
(***************************************************************************)
\* chain ids the wallet can report: Sepolia and Ethereum mainnet
ChainIds == {SEPOLIA_CHAIN_ID, 1}

\* isWrongNetwork = isConnected && chainId !== BOND_SEPOLIA_CHAIN_ID
isWrongNetwork == account # NoAccount /\ chainId # SEPOLIA_CHAIN_ID

\* window.ethereum.on('chainChanged', id => setChainId(parseInt(id, 16))): the
\* refresh effect depends on isWrongNetwork and calls fetchData() when the
\* network becomes the configured one
ChainChanged(id) ==
  /\ id # chainId
  /\ chainId' = id
  /\ IF id = SEPOLIA_CHAIN_ID /\ account # NoAccount
     THEN /\ Quiet
          /\ inv' = [Idle EXCEPT !.op = "fetchData", !.pc = "fd_read", !.acct = account]
          /\ calls' = <<>>
          /\ events' = <<>>
     ELSE UNCHANGED <<inv, calls, events>>
  /\ UNCHANGED <<app, account, price, status, others, coupon, now, calc, section, approved, refresh>>

\* the forms are rendered: the buttons of the handlers can be pressed
FormsShown == account # NoAccount /\ ~isWrongNetwork

NextNetwork ==
  \/ HandlerReturns
  \/ \E id \in ChainIds : ChainChanged(id)
  \/ FormsShown /\ StartUpdatePrice
  \/ \E a \in OverlapAmounts : FormsShown /\ StartSubscribe(a)
  \/ \E a \in OverlapAmounts : FormsShown /\ StartRedeem(a)
  \/ HandlerSteps

SpecNetwork == Connected /\ [][NextNetwork]_vars

(***************************************************************************)
(* fetchData as overlapping calls (BondApp.tsx:120-154, 296, 342).  The    *)
(* refresh effect calls fetchData when the account changes, Subscribe and  *)
(* Redeem call it after an accepted transfer; a call awaits five reads and *)
(* nothing cancels it.  refresh.runs are the calls in flight, each with    *)
(* the account it closed over, its rank among the calls made and the       *)
(* number of reads it has got; refresh.shown names the call whose          *)
(* setBalances wrote the balances on display.                              *)
(***************************************************************************)
\* calls of fetchData in flight together
MaxRefreshes == 2
\* calls of fetchData made in one behaviour
MaxStarted == 3

refreshAside ==
  <<app, status, inv, calls, events, others, coupon, now, calc, chainId, section, approved>>

MayRefresh ==
  Cardinality(refresh.runs) < MaxRefreshes /\ refresh.started < MaxStarted

\* fetchData() is called in a render whose account is a
CallFetchData(a) ==
  [refresh EXCEPT !.runs = @ \cup {[acct |-> a, run |-> refresh.started + 1, fd |-> 0]},
                  !.started = @ + 1]

\* BondApp just mounted, the wallet not connected yet
RefreshInit == Init /\ app = "bond"

\* accountsChanged: setAccount; the refresh effect runs for a connected account
AccountReported(a) ==
  /\ a # account
  /\ account' = a
  /\ IF a # NoAccount
     THEN MayRefresh /\ refresh' = CallFetchData(a)
     ELSE refresh' = refresh
  /\ UNCHANGED price
  /\ UNCHANGED refreshAside

\* Subscribe or Redeem of the connected account has had its transfer
\* accepted and calls fetchData()
OperationRefreshes ==
  /\ account # NoAccount
  /\ MayRefresh
  /\ refresh' = CallFetchData(account)
  /\ UNCHANGED <<account, price>>
  /\ UNCHANGED refreshAside

\* one of the four reads before setBalances returns to call r; with the
\* fourth, setBalances writes the balances read for r.acct; a read that
\* fails ends the call in its catch
BalanceReadReturns(r) ==
  /\ r \in refresh.runs
  /\ r.fd < 4
  /\ \/ refresh' =
          [refresh EXCEPT !.runs = (@ \ {r}) \cup {[r EXCEPT !.fd = @ + 1]},
                          !.shown = IF r.fd = 3 THEN [acct |-> r.acct, run |-> r.run]
                                    ELSE @]
     \/ refresh' = [refresh EXCEPT !.runs = @ \ {r}]
  /\ UNCHANGED <<account, price>>
  /\ UNCHANGED refreshAside

\* the price read returns to call r: setPrice, or the catch
PriceReadReturns(r) ==
  /\ r \in refresh.runs
  /\ r.fd = 4
  /\ refresh' = [refresh EXCEPT !.runs = @ \ {r}]
  /\ \/ \E v \in 0..MaxPrice : price' = ToStr(v)
     \/ price' = price
  /\ UNCHANGED account
  /\ UNCHANGED refreshAside

NextRefresh ==
  \/ \E a \in Accounts \cup {NoAccount} : AccountReported(a)
  \/ OperationRefreshes
  \/ \E r \in refresh.runs : BalanceReadReturns(r)
  \/ \E r \in refresh.runs : PriceReadReturns(r)

SpecRefresh == RefreshInit /\ [][NextRefresh]_vars

(***************************************************************************)
(* handleApprove (BondApp.tsx:189-214, App.tsx:241-265) and the flow that  *)
(* follows it.  approved is the allowance the ledger holds: an accepted    *)
(* approve sets it, and the allowance read of Subscribe and Redeem returns *)
(* it.  BondApp is the component followed: the 10 ** 18 of App.tsx is      *)
(* beyond the range of the checker's integers.                             *)
(***************************************************************************)
\* const decimals = isSubscribing ? 2 : 0 (BondApp), ? 6 : 18 (App)
ApproveDecimals(a, token) ==
  IF a = "bond" THEN (IF token = "usdt" THEN 2 ELSE 0)
  ELSE (IF token = "usdt" THEN 6 ELSE 18)

\* `Approving ${token.toUpperCase()}...`
ApprovingMsg(token) ==
  IF token = "usdt" THEN "Approving USDT..."
  ELSE IF token = "bondToken" THEN "Approving AAPL50..." ELSE "Approving T0050..."

\* `${token.toUpperCase()} approved!`, in App `... approved successfully!`
ApprovedMsg(a, token) ==
  IF a = "bond"
  THEN (IF token = "usdt" THEN "USDT approved!" ELSE "AAPL50 approved!")
  ELSE (IF token = "usdt" THEN "USDT approved successfully!"
        ELSE "T0050 approved successfully!")

\* amounts left in the amount field when Approve is pressed
ApproveAmounts ==
  { <<>>, <<"a">>, <<"0">>, <<"1">>, <<"0", ".", "0", "1">> }

\* the user presses Approve for token with amount in that token's field: the
\* validation, the loading event and the conversion run before the first await
StartApprove(token, amount) ==
  /\ Quiet
  /\ account # NoAccount
  /\ LET me == [Idle EXCEPT !.op = "approve", !.acct = account, !.amt = amount,
                            !.token = token]
         units == ToBaseUnits(amount, ApproveDecimals(app, token))
         loading == Ev("loading", ApprovingMsg(token), NoTx)
     IN  IF InvalidAmount(amount)
         THEN Begin([me EXCEPT !.pc = "done"],
                    <<Ev("error", "Please enter a valid amount.", NoTx)>>)
         ELSE IF ~units.ok
         THEN Begin([me EXCEPT !.pc = "done"], <<loading, Ev("error", RangeError, NoTx)>>)
         ELSE Begin([me EXCEPT !.pc = "approve", !.amountInWei = units.value], <<loading>>)
  /\ UNCHANGED <<app, account, price>>

\* mutation: the accepted approve is not reported
ApproveSendUnreported ==
  /\ inv.pc = "approve"
  /\ LET tx == inv.txCount + 1 IN
     \/ Step([inv EXCEPT !.pc = "done", !.txCount = tx, !.mainTx = tx],
             <<Send(inv.token, "approve", inv.acct, inv.amountInWei, TRUE, tx)>>, <<>>)
     \/ Fatal(<<Send(inv.token, "approve", inv.acct, inv.amountInWei, FALSE, NoTx)>>)
  /\ UNCHANGED <<app, account, price>>

\* approve(subscription, amountInWei) on the token contract
ApproveSend ==
  /\ inv.pc = "approve"
  /\ LET tx == inv.txCount + 1 IN
     \/ Step([inv EXCEPT !.pc = "done", !.txCount = tx, !.mainTx = tx],
             <<Send(inv.token, "approve", inv.acct, inv.amountInWei, TRUE, tx)>>,
             <<Ev("success", ApprovedMsg(app, inv.token), tx)>>)
     \/ Fatal(<<Send(inv.token, "approve", inv.acct, inv.amountInWei, FALSE, NoTx)>>)
  /\ UNCHANGED <<app, account, price>>

\* the allowance read returns what the ledger holds for the account
ReadAllowanceHeld ==
  AllowanceCheck({Held(inv.acct, FlowToken(app, inv.op)).value})

\* the allowance who holds for token is the one Approve has granted for
\* amount, as granted
ApprovedFor(who, token, amount) ==
  LET units == ToBaseUnits(amount, ApproveDecimals(app, token))
  IN  /\ Held(who, token).untouched
      /\ ~InvalidAmount(amount)
      /\ units.ok
      /\ Held(who, token).value = units.value

\* Approve with an amount, then Subscribe or Redeem with the same amount
NextApprove ==
  \/ HandlerReturns
  \/ \E token \in {"usdt", "bondToken"} : \E a \in ApproveAmounts : StartApprove(token, a)
  \/ ApproveSend
  \/ \E a \in ApproveAmounts : Quiet /\ ApprovedFor(account, "usdt", a) /\ StartSubscribe(a)
  \/ \E a \in ApproveAmounts : Quiet /\ ApprovedFor(account, "bondToken", a) /\ StartRedeem(a)
  \/ FetchRead
  \/ FetchPrice
  \/ UpdatePriceSend
  \/ UpdatePriceFirstRead
  \/ UpdatePriceSleep
  \/ UpdatePricePoll
  \/ ClassifyHolder
  \/ CanClaimRead
  \/ ClaimCouponSend
  \/ ClaimSettled
  \/ ReadDecimals
  \/ ReadBalance
  \/ ReadAllowanceHeld
  \/ SendTransfer
  \/ InitializeClaimSend

SpecApprove == BondConnected /\ [][NextApprove]_vars

(***************************************************************************)
(* The four handlers of BondApp to their end: every remote call awaited    *)
(* returns or fails and every timer fires, which is the weak fairness of   *)
(* the steps of the handler in flight.                                     *)
(***************************************************************************)
\* the handler in flight gets the response, or the timer tick, it awaits
Responds == HandlerSteps \/ ApproveSend

\* one click on the page just loaded, followed to the handler's last statement
NextResponsive ==
  \/ StartUpdatePrice
  \/ \E a \in ApproveAmounts : StartSubscribe(a)
  \/ \E a \in ApproveAmounts : StartRedeem(a)
  \/ \E token \in {"usdt", "bondToken"} : \E a \in ApproveAmounts : StartApprove(token, a)
  \/ Responds

SpecResponsive == BondConnected /\ [][NextResponsive]_vars /\ WF_vars(Responds)

(***************************************************************************)
(* The conversion of an amount to base units and back, on its own: an      *)
(* amount string s and a precision p are given, the conversion of the      *)
(* handlers is applied, then formatBigInt with display precision p.        *)
(***************************************************************************)
\* largest whole part of the amounts converted
MaxWhole == 2
\* largest precision, and largest number of fractional digits of an amount
MaxPrecision == 2

\* the digit strings of length n
RECURSIVE DigitStrings(_)
DigitStrings(n) ==
  IF n = 0 THEN { <<>> }
  ELSE {<<DigitChars[d]>> \o t : d \in 1..10, t \in DigitStrings(n - 1)}

OneHundred == <<"1", "0", "0", ".", "0", "0">>

\* non-negative decimal strings: a whole part, then nothing or "." and digits
DecimalStrings ==
  {ToStr(w) : w \in 0..MaxWhole}
    \cup {ToStr(w) \o <<".">> \o f :
            w \in 0..MaxWhole, f \in UNION {DigitStrings(n) : n \in 1..MaxPrecision}}
    \cup {OneHundred}

Converting ==
  /\ Mounted
  /\ app = "bond"
  /\ account = NoAccount
  /\ coupon = CouponUnmounted
  /\ chainId = SEPOLIA_CHAIN_ID
  /\ section = SectionUnmounted
  /\ approved = NoApproval
  /\ refresh = NoRefresh
  /\ now = PageLoadTime
  /\ calc \in [fn : {"convert"}, stage : {"input"}, s : DecimalStrings,
               p : 0..MaxPrecision, units : {0}, back : { <<>> }]

\* amountInWei = BigInt(Math.floor(parseFloat(s) * 10 ** p))
Convert ==
  /\ calc.fn = "convert"
  /\ calc.stage = "input"
  /\ calc' = [calc EXCEPT !.stage = "converted",
                          !.units = ToBaseUnits(calc.s, calc.p).value]
  /\ UNCHANGED <<app, account, price, status, inv, calls, events, others, coupon, now, chainId, section, approved, refresh>>

\* formatBigInt(amountInWei, p, p)
FormatBack ==
  /\ calc.fn = "convert"
  /\ calc.stage = "converted"
  /\ calc' = [calc EXCEPT !.stage = "formatted",
                          !.back = formatBigInt(calc.units, calc.p, calc.p)]
  /\ UNCHANGED <<app, account, price, status, inv, calls, events, others, coupon, now, chainId, section, approved, refresh>>

NextConvert == Convert \/ FormatBack

SpecConvert == Converting /\ [][NextConvert]_vars

(***************************************************************************)
(* formatBigInt on its own: the one of BondApp.tsx and App.tsx, and the    *)
(* one of couponSection.tsx, applied to a value, a precision and a display *)
(* precision.                                                              *)
(***************************************************************************)
\* largest base-unit value formatted
MaxValue == 120

\* formatBigInt of couponSection.tsx: a zero fraction is shown as ".00"
couponFormatBigInt(value, decimals, displayDecimals) ==
  LET divisor == Pow10(decimals)
      integerPart == value \div divisor
      fractionalPart == value % divisor
      fractionalString == padStart(ToStr(fractionalPart), decimals)
  IN  IF fractionalPart = 0 THEN ToStr(integerPart) \o <<".", "0", "0">>
      ELSE ToStr(integerPart) \o <<".">> \o Slice0(fractionalString, displayDecimals)

Formatting ==
  /\ Mounted
  /\ app = "bond"
  /\ account = NoAccount
  /\ coupon = CouponUnmounted
  /\ chainId = SEPOLIA_CHAIN_ID
  /\ section = SectionUnmounted
  /\ approved = NoApproval
  /\ refresh = NoRefresh
  /\ now = PageLoadTime
  /\ calc \in [fn : {"format"}, stage : {"input"}, value : 0..MaxValue,
               decimals : 0..MaxPrecision, displayDecimals : 0..MaxPrecision,
               out : { <<>> }]

\* formatBigInt(value, decimals, displayDecimals) of BondApp.tsx / App.tsx
FormatInApp ==
  /\ calc.fn = "format"
  /\ calc.stage = "input"
  /\ calc' = [calc EXCEPT
                !.stage = "app",
                !.out = formatBigInt(calc.value, calc.decimals, calc.displayDecimals)]
  /\ UNCHANGED <<app, account, price, status, inv, calls, events, others, coupon, now, chainId, section, approved, refresh>>

\* formatBigInt(value, decimals, displayDecimals) of couponSection.tsx
FormatInCouponSection ==
  /\ calc.fn = "format"
  /\ calc.stage = "input"
  /\ calc' = [calc EXCEPT
                !.stage = "couponSection",
                !.out = couponFormatBigInt(calc.value, calc.decimals, calc.displayDecimals)]
  /\ UNCHANGED <<app, account, price, status, inv, calls, events, others, coupon, now, chainId, section, approved, refresh>>

NextFormat == FormatInApp \/ FormatInCouponSection

SpecFormat == Formatting /\ [][NextFormat]_vars

(***************************************************************************)
(* CouponSection (couponSection.tsx): the coupon status of the connected   *)
(* account, refreshed by fetchCouponStatus, and the countdown label,       *)
(* recomputed by updateCountdown when nextClaimTime changes and by the     *)
(* 60 s interval.  coupon.pc is the position of fetchCouponStatus;         *)
(* coupon.shownAt is the clock reading at which the label was computed;    *)
(* coupon.written are the fields the last call of fetchCouponStatus set;   *)
(* coupon.manual is the button handler in flight, with the values of the   *)
(* render it was clicked in.                                               *)
(***************************************************************************)
\* whole days a next claim time lies ahead of the page load
MaxDays == 1
\* seconds the clock advances after the page load
MaxSeconds == 2
\* largest coupon, in base units, calculateCoupon returns
MaxCoupon == 1

\* what getNextClaimTime can return: 0 (no schedule), a time just passed,
\* or a time ahead by days, hours, minutes and seconds
ClaimTimes ==
  {0, PageLoadTime - 60, PageLoadTime - 1}
    \cup {PageLoadTime + d * 86400 + h * 3600 + m * 60 + sec :
            d \in 0..MaxDays, h \in {0, 1, 23}, m \in {0, 1, 59}, sec \in {0, 1, 59}}

\* Math.floor(remaining / 86400)
Days(remaining) == remaining \div 86400
\* Math.floor((remaining % 86400) / 3600)
Hours(remaining) == (remaining % 86400) \div 3600
\* mutation: the minutes taken from the seconds of the day
MinutesOfDay(remaining) == (remaining % 86400) \div 60
\* Math.floor((remaining % 3600) / 60)
Minutes(remaining) == (remaining % 3600) \div 60

\* mutation: updateCountdown compares with the clock before it tests for 0
updateCountdownCompareFirst(nextClaimTime, t) ==
  LET remaining == nextClaimTime - t
  IN  IF remaining <= 0 THEN <<"Available now!">>
      ELSE IF nextClaimTime = 0 THEN <<"Not initialized">>
      ELSE ToStr(Days(remaining)) \o <<"d ">> \o ToStr(Hours(remaining)) \o <<"h ">>
             \o ToStr(Minutes(remaining)) \o <<"m remaining">>

\* the label updateCountdown sets when the clock reads t
updateCountdown(nextClaimTime, t) ==
  LET remaining == nextClaimTime - t
  IN  IF nextClaimTime = 0 THEN <<"Not initialized">>
      ELSE IF remaining <= 0 THEN <<"Available now!">>
      ELSE ToStr(Days(remaining)) \o <<"d ">> \o ToStr(Hours(remaining)) \o <<"h ">>
             \o ToStr(Minutes(remaining)) \o <<"m remaining">>

\* CouponSection rendered for the connected account: both effects have run,
\* the label is computed and fetchCouponStatus awaits getNextClaimTime
CouponMounted ==
  /\ Mounted
  /\ app = "bond"
  /\ account = "acctA"
  /\ now = PageLoadTime
  /\ calc = NoCalc
  /\ chainId = SEPOLIA_CHAIN_ID
  /\ section = SectionUnmounted
  /\ approved = NoApproval
  /\ refresh = NoRefresh
  /\ coupon = [CouponUnmounted EXCEPT
                 !.pc = "next",
                 !.timeRemaining = updateCountdown(0, PageLoadTime),
                 !.shownAt = PageLoadTime]

couponAside ==
  <<app, account, price, status, inv, calls, events, others, calc, chainId, section, approved, refresh>>

\* Date.now() moves on
ClockAdvance ==
  /\ now < PageLoadTime + MaxSeconds
  /\ now' = now + 1
  /\ UNCHANGED coupon
  /\ UNCHANGED couponAside

\* setInterval(fetchCouponStatus, 30000) fires
FetchCouponStatus ==
  /\ coupon.pc = "idle"
  /\ coupon' = [coupon EXCEPT !.pc = "next", !.written = {}]
  /\ UNCHANGED now
  /\ UNCHANGED couponAside

\* getNextClaimTime(account): setNextClaimTime, setIsInitialized; a changed
\* nextClaimTime reruns the countdown effect, which calls updateCountdown
NextClaimTimeRead(answers) ==
  /\ coupon.pc = "next"
  /\ \/ \E t \in answers :
          coupon' = [coupon EXCEPT
                       !.pc = "can",
                       !.written = @ \cup {"nextClaimTime", "isInitialized"},
                       !.nextClaimTime = t,
                       !.isInitialized = (t > 0),
                       !.timeRemaining =
                          IF t # coupon.nextClaimTime THEN updateCountdown(t, now) ELSE @,
                       !.shownAt = IF t # coupon.nextClaimTime THEN now ELSE @]
     \/ coupon' = [coupon EXCEPT !.pc = "idle"]
  /\ UNCHANGED now
  /\ UNCHANGED couponAside

ReadNextClaimTime == NextClaimTimeRead(ClaimTimes)

\* canClaim(account): setCanClaim
ReadCanClaim ==
  /\ coupon.pc = "can"
  /\ \/ \E claimable \in BOOLEAN :
          coupon' = [coupon EXCEPT !.pc = "calc", !.canClaim = claimable,
                                   !.written = @ \cup {"canClaim"}]
     \/ coupon' = [coupon EXCEPT !.pc = "idle"]
  /\ UNCHANGED now
  /\ UNCHANGED couponAside

\* calculateCoupon(account): setCouponAmount(formatBigInt(BigInt(amount), 2))
ReadCouponAmount ==
  /\ coupon.pc = "calc"
  /\ \/ \E amount \in 0..MaxCoupon :
          coupon' = [coupon EXCEPT !.pc = "idle",
                                   !.couponAmount = couponFormatBigInt(amount, 2, 2),
                                   !.written = @ \cup {"couponAmount"}]
     \/ coupon' = [coupon EXCEPT !.pc = "idle"]
  /\ UNCHANGED now
  /\ UNCHANGED couponAside

\* setInterval(updateCountdown, 60000) fires
CountdownInterval ==
  /\ coupon.pc # "unmounted"
  /\ coupon' = [coupon EXCEPT
                  !.timeRemaining = updateCountdown(coupon.nextClaimTime, now),
                  !.shownAt = now]
  /\ UNCHANGED now
  /\ UNCHANGED couponAside

NextCoupon ==
  \/ ClockAdvance
  \/ FetchCouponStatus
  \/ ReadNextClaimTime
  \/ ReadCanClaim
  \/ ReadCouponAmount
  \/ CountdownInterval

SpecCoupon == CouponMounted /\ [][NextCoupon]_vars

(***************************************************************************)
(* The buttons of CouponSection (couponSection.tsx:111-153).  A handler    *)
(* reads nextClaimTime, couponAmount, canClaim and timeRemaining from the  *)
(* render it was created in; events and calls are what the invocation      *)
(* published through onStatusChange and sent.  The check's own call of     *)
(* fetchCouponStatus is the one coupon.pc follows.                         *)
(***************************************************************************)
\* the values of the current render
Rendered ==
  [nextClaimTime |-> coupon.nextClaimTime, couponAmount |-> coupon.couponAmount,
   canClaim |-> coupon.canClaim, timeRemaining |-> coupon.timeRemaining]

\* what handleClaimCoupon reads of its render: canClaim and couponAmount
ClaimSees ==
  [NoManual.seen EXCEPT !.couponAmount = coupon.couponAmount,
                        !.canClaim = coupon.canClaim]

\* new Date(nextClaimTime * 1000).toLocaleString(): the instant, to the second
toLocaleString(t) == <<"date", t>>

\* the message handleCheckStatus builds
statusMsg(nextClaimTime, couponAmount, canClaim, timeRemaining) ==
  <<"Next Claim: ", IF nextClaimTime > 0 THEN toLocaleString(nextClaimTime) ELSE <<"Not set">>,
    "Coupon Amount: $", couponAmount,
    "Can Claim: ", IF canClaim THEN "Yes" ELSE "No",
    "Time Remaining: ", timeRemaining>>

\* getNextClaimTime answering no schedule, a time just passed or one ahead
SoonTimes == {0, PageLoadTime - 1, PageLoadTime + 60}

ReadNextClaimTimeSoon == NextClaimTimeRead(SoonTimes)

manualAside ==
  <<app, account, price, inv, others, calc, chainId, section, approved, refresh, now>>

\* onStatusChange(e): setStatus of BondApp
onStatusChange(e) ==
  /\ status' = e
  /\ events' = Append(events, e)

\* handleCheckStatus up to its await: the loading event, fetchCouponStatus()
handleCheckStatus ==
  /\ coupon.manual.pc = "idle"
  /\ coupon.pc = "idle"
  /\ status' = Ev("loading", <<"Checking coupon status...">>, NoTx)
  /\ events' = <<Ev("loading", <<"Checking coupon status...">>, NoTx)>>
  /\ calls' = <<>>
  /\ coupon' = [coupon EXCEPT
       !.pc = "next", !.written = {},
       !.manual = [op |-> "check", pc |-> "await", delayed |-> @.delayed,
                   seen |-> Rendered]]
  /\ UNCHANGED manualAside

\* fetchCouponStatus() has resolved: statusMsg from the handler's render
CheckStatusReports ==
  /\ coupon.manual.op = "check"
  /\ coupon.manual.pc = "await"
  /\ coupon.pc = "idle"
  /\ LET seen == coupon.manual.seen
     IN  onStatusChange(Ev("info",
           statusMsg(seen.nextClaimTime, seen.couponAmount, seen.canClaim,
                     seen.timeRemaining), NoTx))
  /\ coupon' = [coupon EXCEPT !.manual.pc = "done"]
  /\ UNCHANGED calls
  /\ UNCHANGED manualAside

\* mutation: the claim sent whatever canClaim is
ClaimCouponUnguarded ==
  /\ coupon.manual.pc = "idle"
  /\ status' = Ev("loading", <<"Claiming coupon...">>, NoTx)
  /\ events' = <<Ev("loading", <<"Claiming coupon...">>, NoTx)>>
  /\ calls' = <<>>
  /\ coupon' = [coupon EXCEPT
       !.manual = [op |-> "claim", pc |-> "send", delayed |-> @.delayed,
                   seen |-> ClaimSees]]
  /\ UNCHANGED manualAside

\* handleClaimCoupon up to its await: return unless canClaim, else the
\* loading event and claimCoupon().send({from: account})
ClaimCouponClicked ==
  /\ coupon.manual.pc = "idle"
  /\ calls' = <<>>
  /\ IF coupon.canClaim
     THEN /\ status' = Ev("loading", <<"Claiming coupon...">>, NoTx)
          /\ events' = <<Ev("loading", <<"Claiming coupon...">>, NoTx)>>
          /\ coupon' = [coupon EXCEPT
               !.manual = [op |-> "claim", pc |-> "send", delayed |-> @.delayed,
                           seen |-> ClaimSees]]
     ELSE /\ events' = <<>>
          /\ coupon' = [coupon EXCEPT
               !.manual = [op |-> "claim", pc |-> "done", delayed |-> @.delayed,
                           seen |-> ClaimSees]]
          /\ UNCHANGED status
  /\ UNCHANGED manualAside

\* claimCoupon().send returns: the success event with the transaction hash
\* and setTimeout(fetchCouponStatus, 2000), or the error event of the catch
ClaimCouponSent ==
  /\ coupon.manual.op = "claim"
  /\ coupon.manual.pc = "send"
  /\ \/ /\ calls' = Append(calls, Send("couponPayment", "claimCoupon", account, 0, TRUE, 1))
        /\ onStatusChange(Ev("success",
             <<"Coupon claimed successfully! Received $", coupon.manual.seen.couponAmount>>, 1))
        /\ coupon' = [coupon EXCEPT !.manual.pc = "done", !.manual.delayed = TRUE]
     \/ /\ calls' = Append(calls, Send("couponPayment", "claimCoupon", account, 0, FALSE, NoTx))
        /\ onStatusChange(Ev("error", <<RemoteError>>, NoTx))
        /\ coupon' = [coupon EXCEPT !.manual.pc = "done"]
  /\ UNCHANGED manualAside

\* a refresh is followed up to the message of a check
CheckShown == coupon.manual.op = "check" /\ coupon.manual.pc = "done"

\* the 2 s timeout of handleClaimCoupon fires
DelayedFetchCouponStatus ==
  /\ ~CheckShown
  /\ coupon.manual.delayed
  /\ coupon.pc = "idle"
  /\ coupon' = [coupon EXCEPT !.pc = "next", !.written = {}, !.manual.delayed = FALSE]
  /\ UNCHANGED <<status, events, calls>>
  /\ UNCHANGED manualAside

\* the 30 s interval
StatusInterval ==
  /\ ~CheckShown
  /\ FetchCouponStatus

\* the handler has returned and the banner is closed (BondApp.tsx:379)
BannerClosed ==
  /\ coupon.manual.pc = "done"
  /\ status' = NoStatus
  /\ events' = <<>>
  /\ calls' = <<>>
  /\ coupon' = [coupon EXCEPT !.manual = [NoManual EXCEPT !.delayed = coupon.manual.delayed]]
  /\ UNCHANGED manualAside

NextManual ==
  \/ StatusInterval
  \/ ReadNextClaimTimeSoon
  \/ ReadCanClaim
  \/ ReadCouponAmount
  \/ handleCheckStatus
  \/ CheckStatusReports
  \/ ClaimCouponClicked
  \/ ClaimCouponSent
  \/ DelayedFetchCouponStatus
  \/ BannerClosed

SpecManual == CouponMounted /\ [][NextManual]_vars

(***************************************************************************)
(* The cached price of App (App.tsx:84): '0' until the first read, set by  *)
(* fetchData (157-168) and reset by disconnectWallet (514-520); Subscribe  *)
(* can be pressed whatever the wallet has reported.                        *)
(***************************************************************************)
PriceAmounts == {<<>>, <<"1">>}

\* mutation: the disconnection leaves the price as it is
disconnectWalletKeepsPrice ==
  /\ account # NoAccount
  /\ account' = NoAccount
  /\ chainId' = NoChain
  /\ status' = Ev("info", "Wallet disconnected. You can now connect a different account.", NoTx)
  /\ UNCHANGED <<app, price, inv, calls, events, others, coupon, now, calc, section,
                 approved, refresh>>

\* disconnectWallet: web3, account and chainId null, balances '0', price
\* '0.00', the info event
disconnectWallet ==
  /\ account # NoAccount
  /\ account' = NoAccount
  /\ chainId' = NoChain
  /\ price' = <<"0", ".", "0", "0">>
  /\ status' = Ev("info", "Wallet disconnected. You can now connect a different account.", NoTx)
  /\ UNCHANGED <<app, inv, calls, events, others, coupon, now, calc, section,
                 approved, refresh>>

\* eth_accounts / eth_requestAccounts answered: setAccount, setChainId, and
\* the refresh effect calls fetchData
WalletConnected(a) ==
  /\ Quiet
  /\ account = NoAccount
  /\ account' = a
  /\ chainId' = SEPOLIA_CHAIN_ID
  /\ inv' = [Idle EXCEPT !.op = "fetchData", !.pc = "fd_read", !.acct = a]
  /\ calls' = <<>>
  /\ events' = <<>>
  /\ UNCHANGED <<app, price, status, others, coupon, now, calc, section, approved, refresh>>

AppInit == Init /\ app = "t0050"

NextPrice ==
  \/ HandlerReturns
  \/ \E a \in Accounts : WalletConnected(a)
  \/ disconnectWallet
  \/ FetchRead
  \/ FetchPrice
  \/ \E a \in PriceAmounts : handleSubscribe(a)
  \/ ReadDecimals
  \/ ReadBalance
  \/ ReadAllowance
  \/ SendTransfer

SpecPrice == AppInit /\ [][NextPrice]_vars

(***************************************************************************)
(* CouponSection as a component (couponSection.tsx:29-153): BondApp        *)
(* renders it for the connected account and passes the account and the     *)
(* bond balance as props.  section.statusTimers and                        *)
(* section.countdownTimers are the intervals the browser holds, each with  *)
(* the values its callback closed over; section.runs are the               *)
(* fetchCouponStatus calls in flight, each with the account it closed      *)
(* over and the read it awaits (two calls at the same point for the same   *)
(* account are one element: they do the same); section.last records what   *)
(* the last step did.  A state setter called after the unmount writes      *)
(* nothing; the wallet reconnects once nothing of the previous instance is *)
(* in flight any more.                                                     *)
(***************************************************************************)
\* interval ids an effect can have been handed out and not yet cleared
MaxTimers == 2
\* fetchCouponStatus calls in flight at once
MaxRuns == 2
\* setTimeout(fetchCouponStatus, 2000) callbacks pending at once
MaxDelayed == 1

TimerIds == 1..MaxTimers

\* what getNextClaimTime returns here: no schedule, or a day after the page load
SectionClaimTimes == {0, PageLoadTime + 86400}

\* what the bondBalance prop can be: balances.aapl50 as a quantity
BondBalances == {0, 1}

\* ids that setInterval can return to an effect: not held by the browser and
\* not the one its cleanup is about to clear
FreeIds(timers, interval) == TimerIds \ ({t.id : t \in timers} \cup {interval})

NewId(timers, interval) == CHOOSE n \in FreeIds(timers, interval) : TRUE

\* mutation: the cleanup of an effect clears nothing
clearIntervalNever(timers, interval) == timers

\* return () => clearInterval(interval)
clearInterval(timers, interval) == {t \in timers : t.id # interval}

\* what a step did: the timer that fired, and the account of the coupon
\* read it issued or wrote to the snapshot
Did(tick, acct) == [tick |-> tick, acct |-> acct]

\* a call of fetchCouponStatus by a closure that holds account a: the guard
\* passes and getNextClaimTime(a) is issued
StartRun(runs, a) == runs \cup {[acct |-> a, pc |-> "next"]}

\* the call r goes on to await its next read
Advance(runs, r, pc) == (runs \ {r}) \cup {[r EXCEPT !.pc = pc]}

\* room for one more call in flight
MayStart == Cardinality(section.runs) < MaxRuns

sectionAside ==
  <<app, price, inv, calls, events, others, coupon, now, calc, chainId, approved, refresh>>

\* BondApp mounted, the wallet not connected yet, CouponSection not rendered
SectionInit ==
  /\ Mounted
  /\ app = "bond"
  /\ account = NoAccount
  /\ coupon = CouponUnmounted
  /\ now = PageLoadTime
  /\ calc = NoCalc
  /\ chainId = SEPOLIA_CHAIN_ID
  /\ section = SectionUnmounted
  /\ approved = NoApproval
  /\ refresh = NoRefresh

\* nothing started by an earlier instance of CouponSection is still under way
Settled ==
  /\ section.runs = {}
  /\ section.delayed = {}
  /\ section.claim.pc = "idle"

\* the wallet reports an account: BondApp renders CouponSection; the countdown
\* effect runs (couponSection.tsx:73-99), then the status effect (102-108)
SectionRendered(a) ==
  /\ account = NoAccount
  /\ a # NoAccount
  /\ Settled
  /\ FreeIds(section.countdownTimers, 0) # {}
  /\ FreeIds(section.statusTimers, 0) # {}
  /\ account' = a
  /\ LET c == NewId(section.countdownTimers, 0)
         t == NewId(section.statusTimers, 0)
     IN  section' = [section EXCEPT
           !.mounted = TRUE,
           !.countdownInterval = c,
           !.countdownTimers = @ \cup {[id |-> c, nextClaimTime |-> 0]},
           !.statusInterval = t,
           !.statusTimers = @ \cup {[id |-> t, acct |-> a]},
           !.runs = StartRun(@, a),
           !.last = Did("none", a)]
  /\ UNCHANGED status
  /\ UNCHANGED sectionAside

\* the status effect runs again (deps [web3, account, bondBalance]): its
\* cleanup, then fetchCouponStatus() and a new setInterval, for account a
StatusEffectReruns(s, a) ==
  LET t == NewId(s.statusTimers, s.statusInterval)
  IN  [s EXCEPT
         !.statusInterval = t,
         !.statusTimers = clearInterval(@, s.statusInterval) \cup {[id |-> t, acct |-> a]},
         !.runs = StartRun(@, a),
         !.last = Did("none", a)]

\* accountsChanged with another account: the account prop changes
AccountSwitched(a) ==
  /\ section.mounted
  /\ a # NoAccount
  /\ a # account
  /\ MayStart
  /\ FreeIds(section.statusTimers, section.statusInterval) # {}
  /\ account' = a
  /\ section' = StatusEffectReruns(section, a)
  /\ UNCHANGED status
  /\ UNCHANGED sectionAside

\* fetchData of BondApp has set balances.aapl50: the bondBalance prop changes
BondBalanceChanged(b) ==
  /\ section.mounted
  /\ b # section.bondBalance
  /\ MayStart
  /\ FreeIds(section.statusTimers, section.statusInterval) # {}
  /\ section' = StatusEffectReruns([section EXCEPT !.bondBalance = b], account)
  /\ UNCHANGED <<account, status>>
  /\ UNCHANGED sectionAside

\* accountsChanged with no account: BondApp stops rendering CouponSection,
\* the cleanups of both effects run and the state of the instance is dropped
SectionTornDown ==
  /\ section.mounted
  /\ account' = NoAccount
  /\ section' = [SectionUnmounted EXCEPT
       !.statusTimers = clearInterval(section.statusTimers, section.statusInterval),
       !.countdownTimers = clearInterval(section.countdownTimers, section.countdownInterval),
       !.runs = section.runs,
       !.delayed = section.delayed,
       !.claim = section.claim]
  /\ UNCHANGED status
  /\ UNCHANGED sectionAside

\* setInterval(fetchCouponStatus, 30000) fires: the callback is the
\* fetchCouponStatus of the render whose effect created the interval
StatusIntervalFires ==
  /\ MayStart
  /\ \E t \in section.statusTimers :
       section' = [section EXCEPT
         !.runs = StartRun(@, t.acct),
         !.last = Did("status", t.acct)]
  /\ UNCHANGED <<account, status>>
  /\ UNCHANGED sectionAside

\* setInterval(updateCountdown, 60000) fires
CountdownIntervalFires ==
  /\ section.countdownTimers # {}
  /\ section' = [section EXCEPT !.last = Did("countdown", NoAccount)]
  /\ UNCHANGED <<account, status>>
  /\ UNCHANGED sectionAside

\* setNextClaimTime(t): a changed nextClaimTime reruns the countdown effect
\* (deps [nextClaimTime]): its cleanup, updateCountdown(), a new setInterval
CountdownEffectReruns(s, t) ==
  IF t = s.nextClaimTime THEN s
  ELSE LET c == NewId(s.countdownTimers, s.countdownInterval)
       IN  [s EXCEPT
              !.nextClaimTime = t,
              !.countdownInterval = c,
              !.countdownTimers =
                 clearInterval(@, s.countdownInterval) \cup {[id |-> c, nextClaimTime |-> t]}]

\* the catch of fetchCouponStatus: console.error, nothing else
RunFails(r) ==
  section' = [section EXCEPT !.runs = @ \ {r}, !.last = Did("none", NoAccount)]

\* getNextClaimTime(account) returns: setNextClaimTime, setIsInitialized, then
\* canClaim(account) is issued; a rejected read ends the refresh in its catch
RunNextClaimTime ==
  /\ \E r \in section.runs :
       /\ r.pc = "next"
       /\ FreeIds(section.countdownTimers, section.countdownInterval) # {}
       /\ \/ \E t \in SectionClaimTimes :
               LET written == IF section.mounted
                              THEN [CountdownEffectReruns(section, t) EXCEPT
                                      !.isInitialized = (t > 0)]
                              ELSE section
               IN  section' = [written EXCEPT
                     !.runs = Advance(@, r, "can"),
                     !.last = Did("none", r.acct)]
          \/ RunFails(r)
  /\ UNCHANGED <<account, status>>
  /\ UNCHANGED sectionAside

\* canClaim(account) returns: setCanClaim, then calculateCoupon(account) is
\* issued in either branch
RunCanClaim ==
  /\ \E r \in section.runs :
       /\ r.pc = "can"
       /\ \/ \E claimable \in BOOLEAN :
               section' = [section EXCEPT
                 !.canClaim = IF section.mounted THEN claimable ELSE @,
                 !.runs = Advance(@, r, "calc"),
                 !.last = Did("none", r.acct)]
          \/ RunFails(r)
  /\ UNCHANGED <<account, status>>
  /\ UNCHANGED sectionAside

\* calculateCoupon(account) returns: setCouponAmount; fetchCouponStatus ends
RunCalculateCoupon ==
  /\ \E r \in section.runs :
       /\ r.pc = "calc"
       /\ \/ \E amount \in 0..MaxCoupon :
               section' = [section EXCEPT
                 !.couponAmount = IF section.mounted THEN amount ELSE @,
                 !.runs = @ \ {r},
                 !.last = Did("none", IF section.mounted THEN r.acct ELSE NoAccount)]
          \/ RunFails(r)
  /\ UNCHANGED <<account, status>>
  /\ UNCHANGED sectionAside

\* the Claim button: if (!web3 || !account || !canClaim) return; then the
\* loading event and the claimCoupon send
handleClaimCoupon ==
  /\ section.mounted
  /\ section.canClaim
  /\ section.claim.pc = "idle"
  /\ Cardinality(section.delayed) < MaxDelayed
  /\ status' = Ev("loading", "Claiming coupon...", NoTx)
  /\ section' = [section EXCEPT
       !.claim = [pc |-> "send", acct |-> account],
       !.last = Did("none", NoAccount)]
  /\ UNCHANGED account
  /\ UNCHANGED sectionAside

\* claimCoupon().send returns: the success event and
\* setTimeout(fetchCouponStatus, 2000), or the error event of the catch
ClaimCouponReturns ==
  /\ section.claim.pc = "send"
  /\ \/ /\ status' = Ev("success", "Coupon claimed successfully!", 1)
        /\ section' = [section EXCEPT
             !.claim = [pc |-> "idle", acct |-> NoAccount],
             !.delayed = @ \cup {section.claim.acct},
             !.last = Did("none", NoAccount)]
     \/ /\ status' = Ev("error", RemoteError, NoTx)
        /\ section' = [section EXCEPT
             !.claim = [pc |-> "idle", acct |-> NoAccount],
             !.last = Did("none", NoAccount)]
  /\ UNCHANGED account
  /\ UNCHANGED sectionAside

\* the 2 s timeout fires: fetchCouponStatus of the render that was claimed from
DelayedRefreshFires ==
  /\ MayStart
  /\ \E a \in section.delayed :
       section' = [section EXCEPT
         !.delayed = @ \ {a},
         !.runs = StartRun(@, a),
         !.last = Did("delayed", a)]
  /\ UNCHANGED <<account, status>>
  /\ UNCHANGED sectionAside

NextSection ==
  \/ \E a \in Accounts : SectionRendered(a)
  \/ \E a \in Accounts : AccountSwitched(a)
  \/ \E b \in BondBalances : BondBalanceChanged(b)
  \/ SectionTornDown
  \/ StatusIntervalFires
  \/ CountdownIntervalFires
  \/ RunNextClaimTime
  \/ RunCanClaim
  \/ RunCalculateCoupon
  \/ handleClaimCoupon
  \/ ClaimCouponReturns
  \/ DelayedRefreshFires

SpecSection == SectionInit /\ [][NextSection]_vars

(***************************************************************************)
(* Vocabulary of the properties: the record of the invocation.             *)
(***************************************************************************)
IsFlow == inv.op \in {"subscribe", "redeem"}

Ended == inv.pc = "done"

Published == Len(events) > 0

LastEvent == events[Len(events)]

\* the subscribe(amount) or redeem(amount) send, accepted or not
IsTransfer(c) == c.type = "send" /\ c.contract = "subscription"

IsRead(c, contract, method) ==
  c.type = "read" /\ c.contract = contract /\ c.method = method

\* no subscribe/redeem send was issued before call i
BeforeTransfer(i) == \A j \in 1..(i - 1) : ~IsTransfer(calls[j])

\* call i is the balance read of the precondition check
IsBalanceCheck(i) ==
  /\ IsRead(calls[i], FlowToken(app, inv.op), "balanceOf")
  /\ calls[i].ok
  /\ calls[i].account = inv.acct
  /\ BeforeTransfer(i)
  /\ i > 1
  /\ IsRead(calls[i - 1], FlowToken(app, inv.op), "decimals")

\* call i is the allowance read of the precondition check
IsAllowanceCheck(i) ==
  /\ IsRead(calls[i], FlowToken(app, inv.op), "allowance")
  /\ calls[i].ok
  /\ calls[i].account = inv.acct

IsInsufficientBalance(e) ==
  e.type = "error" /\ e.message = InsufficientBalanceMsg(app, inv.op)

IsInsufficientAllowance(e) ==
  e.type = "error" /\ e.message = InsufficientAllowanceMsg(app, inv.op)

\* call i is a call of the price refresh of step 1 that failed
RefreshFailedAt(i) ==
  /\ calls[i].contract = "priceOracle"
  /\ ~calls[i].ok
  /\ \A j \in 1..i : calls[j].contract = "priceOracle"

(***************************************************************************)
(* C1.  A subscribe/redeem transaction is sent only if, earlier in the     *)
(* same invocation, the balance read and the allowance read for the moved  *)
(* token and the invoking account both returned at least the required      *)
(* base-unit amount; the allowance read is the call right before the send. *)
(***************************************************************************)
C1_SendOnlyAfterSufficientReads ==
  IsFlow =>
    \A i \in 1..Len(calls) :
      IsTransfer(calls[i]) =>
        /\ calls[i].method = inv.op
        /\ calls[i].account = inv.acct
        /\ calls[i].amount = inv.amountInWei
        /\ i > 2
        /\ IsAllowanceCheck(i - 1)
        /\ calls[i - 1].value >= calls[i].amount
        /\ \E j \in 1..(i - 2) :
             IsBalanceCheck(j) /\ calls[j].value >= calls[i].amount

\* a Subscribe whose subscribe(amount) send for a positive amount was accepted
C1_Witness ==
  /\ inv.op = "subscribe"
  /\ \E i \in 1..Len(calls) :
       IsTransfer(calls[i]) /\ calls[i].ok /\ calls[i].amount > 0

(***************************************************************************)
(* C2.  Subscribe and Redeem called with an amount that is empty,          *)
(* non-positive or not a number publish an error StatusEvent and issue no  *)
(* remote call at all.                                                     *)
(***************************************************************************)
\* empty, or parses to NaN, or parses to a number <= 0
NotAPositiveNumber(a) ==
  a = <<>> \/ parseFloat(a).nan \/ NonPositive(parseFloat(a))

C3_RefreshFailureIsFatal ==
  (IsFlow /\ app = "bond") =>
    \A i \in 1..Len(calls) :
      RefreshFailedAt(i) =>
        /\ Len(calls) = i
        /\ Published
        /\ LastEvent.type = "error"

(***************************************************************************)
(* C4.  As claimed: an invocation that ends with InsufficientBalance or    *)
(* InsufficientAllowance has sent no state-changing transaction at all.    *)
(***************************************************************************)
EndsInsufficient ==
  /\ IsFlow
  /\ Published
  /\ IsInsufficientBalance(LastEvent) \/ IsInsufficientAllowance(LastEvent)

C4_NoSendBeforeInsufficient ==
  (EndsInsufficient /\ Ended) =>
    \A i \in 1..Len(calls) : ~(calls[i].type = "send" /\ calls[i].ok)

(***************************************************************************)
(* C4, as amended.  Once InsufficientBalance or InsufficientAllowance is   *)
(* the last event, the invocation has ended and has sent no subscribe,     *)
(* redeem or initializeClaim: the only sends are the requestPriceUpdate of *)
(* step 1 and, in Subscribe, claimCoupon; App.tsx has sent nothing.        *)
(***************************************************************************)
C4_NoTransferBeforeInsufficient ==
  EndsInsufficient =>
    /\ Ended
    /\ \A i \in 1..Len(calls) :
         calls[i].type = "send" =>
           /\ app = "bond"
           /\ \/ calls[i].method = "requestPriceUpdate"
              \/ calls[i].method = "claimCoupon" /\ inv.op = "subscribe"

\* a BondApp invocation that ended on a precondition error after an accepted send
C4_Witness ==
  /\ EndsInsufficient
  /\ Ended
  /\ \E i \in 1..Len(calls) : calls[i].type = "send" /\ calls[i].ok

(***************************************************************************)
(* C5.  A balance read below the required amount is reported as            *)
(* InsufficientBalance and ends the invocation before the allowance is     *)
(* read; InsufficientAllowance is reported only after a balance read of at *)
(* least the required amount and an allowance read below it; in both cases *)
(* no subscribe/redeem is sent.                                            *)
(***************************************************************************)
C5_PreconditionErrors ==
  IsFlow =>
    /\ \A i \in 1..Len(calls) :
         (IsBalanceCheck(i) /\ calls[i].value < inv.amountInWei) =>
           /\ Len(calls) = i
           /\ Ended
           /\ Published
           /\ IsInsufficientBalance(LastEvent)
    /\ (Published /\ IsInsufficientAllowance(LastEvent)) =>
         /\ Len(calls) > 2
         /\ IsAllowanceCheck(Len(calls))
         /\ calls[Len(calls)].value < inv.amountInWei
         /\ IsBalanceCheck(Len(calls) - 1)
         /\ calls[Len(calls) - 1].value >= inv.amountInWei
    /\ EndsInsufficient => \A i \in 1..Len(calls) : ~IsTransfer(calls[i])

\* a Redeem of App.tsx that ended with InsufficientAllowance
C5_Witness ==
  /\ app = "t0050"
  /\ inv.op = "redeem"
  /\ Ended
  /\ Published
  /\ IsInsufficientAllowance(LastEvent)

(***************************************************************************)
(* C6.  No remote error of a coupon-coordination call of Subscribe (the    *)
(* canClaim read, the claimCoupon send, the initializeClaim send) ends the *)
(* invocation with an error StatusEvent: the flow goes on to its next step.*)
(***************************************************************************)
IsCouponCall(c) == c.contract = "couponPayment"

C6_CouponErrorsNotFatal ==
  (app = "bond" /\ inv.op = "subscribe") =>
    \A i \in 1..Len(calls) :
      (IsCouponCall(calls[i]) /\ ~calls[i].ok /\ Len(calls) = i) =>
        ~(Ended /\ Published /\ LastEvent.type = "error")

(***************************************************************************)
(* C7.  For a returning holder whose canClaim read was true, a failed      *)
(* claimCoupon send leaves the invocation at the subscribe precondition    *)
(* checks, and when the invocation has ended its last StatusEvent is the   *)
(* subscription's: success with the subscribe transaction if that send was *)
(* accepted, otherwise an error published by a step made after the claim.  *)
(***************************************************************************)
ClaimFailedAt(i) ==
  /\ calls[i].type = "send"
  /\ calls[i].method = "claimCoupon"
  /\ ~calls[i].ok

C7_ClaimFailureDoesNotBlock ==
  (app = "bond" /\ inv.op = "subscribe") =>
    \A i \in 1..Len(calls) :
      ClaimFailedAt(i) =>
        /\ i > 2
        /\ IsRead(calls[i - 1], "couponPayment", "canClaim") /\ calls[i - 1].value = 1
        /\ IsRead(calls[i - 2], "bondToken", "balanceOf") /\ calls[i - 2].value > 0
        /\ Len(calls) = i => inv.pc = "decimals"
        /\ Len(calls) > i => IsRead(calls[i + 1], "usdt", "decimals")
        /\ Ended =>
             /\ Len(calls) > i
             /\ Published
             /\ IF \E j \in (i + 1)..Len(calls) : IsTransfer(calls[j]) /\ calls[j].ok
                THEN /\ LastEvent.type = "success"
                     /\ \E j \in (i + 1)..Len(calls) :
                          /\ IsTransfer(calls[j])
                          /\ LastEvent.txHash = calls[j].value
                ELSE LastEvent.type = "error"

\* the claim failed and the subscribe that followed was accepted
C7_Witness ==
  /\ Ended
  /\ \E i \in 1..Len(calls) : ClaimFailedAt(i)
  /\ \E j \in 1..Len(calls) : IsTransfer(calls[j]) /\ calls[j].ok

(***************************************************************************)
(* C8.  In Subscribe, initializeClaim(account) is sent exactly when the    *)
(* bond balance read of step 2 returned 0 and the subscribe send was       *)
(* accepted, and it is the call right after that subscribe send.           *)
(***************************************************************************)
\* call i is the bond balance read that classifies the holder
IsHolderRead(i) ==
  /\ IsRead(calls[i], "bondToken", "balanceOf")
  /\ calls[i].ok
  /\ BeforeTransfer(i)

IsInitializeClaim(c) == c.type = "send" /\ c.method = "initializeClaim"

C8_InitializeClaimIffFirstTime ==
  (app = "bond" /\ inv.op = "subscribe") =>
    /\ \A i \in 1..Len(calls) :
         IsInitializeClaim(calls[i]) =>
           /\ calls[i].account = inv.acct
           /\ i > 1
           /\ IsTransfer(calls[i - 1]) /\ calls[i - 1].ok
           /\ \E j \in 1..(i - 1) : IsHolderRead(j) /\ calls[j].value = 0
           /\ \A j \in 1..Len(calls) : IsInitializeClaim(calls[j]) => j = i
    /\ \A i \in 1..Len(calls) :
         ( /\ IsTransfer(calls[i]) /\ calls[i].ok
           /\ \E j \in 1..(i - 1) : IsHolderRead(j) /\ calls[j].value = 0 ) =>
           IF Len(calls) = i THEN inv.pc = "sub_init"
           ELSE IsInitializeClaim(calls[i + 1])

\* a first-time Subscribe that has sent initializeClaim
C8_Witness ==
  /\ inv.op = "subscribe"
  /\ Ended
  /\ \E i \in 1..Len(calls) : IsInitializeClaim(calls[i])

(***************************************************************************)
(* C9.  Once the subscribe send of a Subscribe has been accepted, the      *)
(* invocation ends with a success StatusEvent carrying the reference of    *)
(* the subscribe transaction, whatever initializeClaim did.                *)
(***************************************************************************)
C9_AcceptedSubscribeEndsSuccess ==
  (inv.op = "subscribe" /\ Ended) =>
    \A i \in 1..Len(calls) :
      (IsTransfer(calls[i]) /\ calls[i].ok) =>
        /\ Published
        /\ LastEvent.type = "success"
        /\ LastEvent.txHash = calls[i].value
        /\ \A j \in 1..Len(calls) :
             (calls[j].type = "send" /\ calls[j].ok /\ j # i) =>
               LastEvent.txHash # calls[j].value

\* a first-time Subscribe whose initializeClaim failed after an accepted subscribe
C9_Witness ==
  /\ inv.op = "subscribe"
  /\ Ended
  /\ \E i \in 1..Len(calls) : IsInitializeClaim(calls[i]) /\ ~calls[i].ok

(***************************************************************************)
(* C10.  An invocation whose subscribe/redeem send was accepted publishes  *)
(* exactly one StatusEvent of kind success during the whole invocation,    *)
(* and it carries the reference of the subscribe/redeem transaction.       *)
(***************************************************************************)
SuccessEvents == {k \in 1..Len(events) : events[k].type = "success"}

C10_ExactlyOneSuccessEvent ==
  (IsFlow /\ Ended) =>
    \A i \in 1..Len(calls) :
      (IsTransfer(calls[i]) /\ calls[i].ok) =>
        /\ Cardinality(SuccessEvents) = 1
        /\ \A k \in SuccessEvents : events[k].txHash = calls[i].value

(***************************************************************************)
(* C11.  Every Subscribe or Redeem invocation that has ended with an error *)
(* StatusEvent published exactly one StatusEvent of kind error during the  *)
(* whole invocation.                                                       *)
(***************************************************************************)
ErrorEvents == {k \in 1..Len(events) : events[k].type = "error"}

C11_ExactlyOneErrorEvent ==
  (IsFlow /\ Ended /\ Published /\ LastEvent.type = "error") =>
    Cardinality(ErrorEvents) = 1

(***************************************************************************)
(* C14.  A Redeem invocation calls no method of the coupon contract: every *)
(* call it makes is to the price oracle, the redeemed token, USDt (the     *)
(* display refresh) or the subscription contract.                          *)
(***************************************************************************)
C14_RedeemNeverTouchesCoupon ==
  inv.op = "redeem" =>
    \A i \in 1..Len(calls) :
      /\ ~IsCouponCall(calls[i])
      /\ calls[i].method \notin
           {"canClaim", "claimCoupon", "initializeClaim", "calculateCoupon",
            "getNextClaimTime"}

\* a Redeem of BondApp whose redeem send was accepted and that ran to its end
C14_Witness ==
  /\ app = "bond"
  /\ inv.op = "redeem"
  /\ Ended
  /\ \E i \in 1..Len(calls) : IsTransfer(calls[i]) /\ calls[i].ok

(***************************************************************************)
(* C13.  When the requestPriceUpdate send was accepted and every price     *)
(* read of the refresh succeeded, whatever the values read (zero each time *)
(* included), the refresh makes its first read and at most                 *)
(* PollTimeoutMs / PollIntervalMs = 10 re-reads; once it has returned it   *)
(* has published success "Price updated!" with the reference of the send   *)
(* and no error, and the price snapshot is the value of its last read.     *)
(***************************************************************************)
InRefresh == inv.pc \in {"up_send", "up_read0", "up_sleep", "up_poll"}

\* index of the last of the leading oracle calls, counted from call k
RECURSIVE OracleLead(_)
OracleLead(k) ==
  IF k > Len(calls) \/ calls[k].contract # "priceOracle"
  THEN k - 1
  ELSE OracleLead(k + 1)

\* the price reads of the refresh: those among the leading oracle calls
PollReads ==
  {i \in 2..OracleLead(1) :
     IsRead(calls[i], "priceOracle", "getLatestPriceUSD")}

LastPollRead ==
  LET reads == PollReads
  IN  CHOOSE i \in reads : \A j \in reads : j <= i

\* the invocation has read the price only in its refresh
PriceReadOnlyByRefresh ==
  LET reads == PollReads
  IN  \A i \in 1..Len(calls) :
        IsRead(calls[i], "priceOracle", "getLatestPriceUSD") => i \in reads

RefreshAccepted ==
  /\ app = "bond"
  /\ Len(calls) >= 1
  /\ calls[1].type = "send"
  /\ calls[1].method = "requestPriceUpdate"
  /\ calls[1].ok
  /\ \A i \in PollReads : calls[i].ok

C13_PollTerminatesWithSuccess ==
  RefreshAccepted =>
    /\ Cardinality(PollReads) <= 1 + (PollTimeoutMs \div PollIntervalMs)
    /\ ~InRefresh =>
         /\ PollReads # {}
         /\ \E k \in 1..Len(events) :
              /\ events[k] = Ev("success", "Price updated!", calls[1].value)
              /\ \A j \in 1..k : events[j].type # "error"
         /\ PriceReadOnlyByRefresh => price = ToStr(calls[LastPollRead].value)
         /\ inv.op = "updatePrice" =>
              /\ Ended
              /\ LastEvent = Ev("success", "Price updated!", calls[1].value)

\* a manual price update whose eleven reads all returned zero
C13_Witness ==
  /\ inv.op = "updatePrice"
  /\ Ended
  /\ RefreshAccepted
  /\ Cardinality(PollReads) = 11
  /\ \A i \in PollReads : calls[i].value = 0
  /\ price = <<"0">>
  /\ LastEvent.type = "success"

(***************************************************************************)
(* C12.  At no time are two Subscribe/Redeem invocations pending together: *)
(* among the invocation followed and the suspended ones, at most one is a  *)
(* Subscribe or Redeem between its start and its final StatusEvent.        *)
(***************************************************************************)
\* a Subscribe/Redeem that has started and not yet published its final event
Pending(i) ==
  /\ i.op \in {"subscribe", "redeem"}
  /\ i.pc \notin {"idle", "done", "fd_read", "fd_price"}

FlowsPending ==
  (IF Pending(inv) THEN 1 ELSE 0)
    + Cardinality({k \in 1..Len(others) : Pending(others[k].inv)})

C12_OneFlowAtATime == FlowsPending <= 1

(***************************************************************************)
(* C15.  For a non-negative decimal string s with at most p fractional     *)
(* digits, converting s to base units with precision p and formatting the  *)
(* result with precision p and display precision p gives s back, up to     *)
(* trailing zeros of the fraction; "100.00" with precision 2 converts to   *)
(* exactly 10000.                                                          *)
(***************************************************************************)
HasDot(s) == \E i \in 1..Len(s) : s[i] = "."

\* number of digits after the "."
FracDigits(s) ==
  IF HasDot(s) THEN Len(s) - (CHOOSE i \in 1..Len(s) : s[i] = ".") ELSE 0

\* s without the trailing zeros of its fraction, and without a trailing "."
RECURSIVE StripZeros(_)
StripZeros(s) ==
  IF s # <<>> /\ s[Len(s)] = "0" THEN StripZeros(SubSeq(s, 1, Len(s) - 1))
  ELSE IF s # <<>> /\ s[Len(s)] = "." THEN SubSeq(s, 1, Len(s) - 1)
  ELSE s

Normalized(s) == IF HasDot(s) THEN StripZeros(s) ELSE s

C15_RoundTrip ==
  (calc.fn = "convert" /\ FracDigits(calc.s) <= calc.p) =>
    /\ calc.stage = "formatted" => Normalized(calc.back) = Normalized(calc.s)
    /\ (calc.stage # "input" /\ calc.s = OneHundred /\ calc.p = 2) =>
         calc.units = 10000

(***************************************************************************)
(* C16.  formatBigInt truncates and never rounds up: the number written by *)
(* the string it returns is at most value / 10^decimals, is less than      *)
(* 10^-displayDecimals below it, and is written with at most               *)
(* displayDecimals fractional digits.                                      *)
(***************************************************************************)
\* the string out denotes shown.mant / 10^shown.scale; in units of
\* 10^-(decimals + scale), that number and value / 10^decimals
ShownUnits(shown, decimals) == shown.mant * Pow10(decimals)

ExactUnits(value, shown) == value * Pow10(shown.scale)

TruncatedNotRounded(value, decimals, displayDecimals, out) ==
  LET shown == parseFloat(out)
      lost == ExactUnits(value, shown) - ShownUnits(shown, decimals)
  IN  /\ ~shown.nan
      /\ ~shown.neg
      /\ lost >= 0
      /\ IF displayDecimals <= decimals + shown.scale
         THEN lost < Pow10(decimals + shown.scale - displayDecimals)
         ELSE lost = 0

C17_ZeroThenAvailable ==
  coupon.pc # "unmounted" =>
    /\ coupon.nextClaimTime = 0 => coupon.timeRemaining = <<"Not initialized">>
    /\ (coupon.nextClaimTime # 0 /\ coupon.nextClaimTime <= coupon.shownAt) =>
         coupon.timeRemaining = <<"Available now!">>

\* the label was computed for a claim time that had passed
C17_Witness ==
  /\ coupon.nextClaimTime # 0
  /\ coupon.nextClaimTime <= coupon.shownAt
  /\ coupon.shownAt > PageLoadTime
  /\ coupon.timeRemaining = <<"Available now!">>

(***************************************************************************)
(* C18.  For a claim time after the clock reading r seconds earlier, the   *)
(* label is "{d}d {h}h {m}m remaining" with d = r div 86400,               *)
(* h = (r mod 86400) div 3600, m = (r mod 3600) div 60; so 0 <= h < 24,    *)
(* 0 <= m < 60 and d*86400 + h*3600 + m*60 <= r < that + 60.               *)
(***************************************************************************)
C18_DaysHoursMinutes ==
  (coupon.pc # "unmounted" /\ coupon.nextClaimTime > coupon.shownAt) =>
    LET r == coupon.nextClaimTime - coupon.shownAt
        d == r \div 86400
        h == (r % 86400) \div 3600
        m == (r % 3600) \div 60
        shown == d * 86400 + h * 3600 + m * 60
    IN  /\ coupon.timeRemaining =
             ToStr(d) \o <<"d ">> \o ToStr(h) \o <<"h ">> \o ToStr(m) \o <<"m remaining">>
        /\ 0 <= h /\ h < 24
        /\ 0 <= m /\ m < 60
        /\ shown <= r /\ r < shown + 60

\* a claim time less than a minute ahead, shown as "0d 0h 0m remaining"
C18_Witness ==
  /\ coupon.nextClaimTime > coupon.shownAt
  /\ coupon.nextClaimTime - coupon.shownAt < 60
  /\ coupon.timeRemaining = <<"0", "d ", "0", "h ", "0", "m remaining">>

(***************************************************************************)
(* C19.  When the clock reads T and no refresh is under way, a coupon      *)
(* whose nextClaimTime is T or T-1 is reported as available: the label     *)
(* says so and the claim action is enabled (canClaim is true).             *)
(***************************************************************************)
C19_AvailableAtClaimTime ==
  ( /\ coupon.pc = "idle"
    /\ coupon.nextClaimTime > 0
    /\ coupon.nextClaimTime \in {now, now - 1} ) =>
      /\ coupon.timeRemaining = <<"Available now!">>
      /\ coupon.canClaim

(***************************************************************************)
(* C20.  The status slot holds the latest StatusEvent only: a step that    *)
(* publishes leaves the slot equal to the last event it published, and the *)
(* slot changes in no other way than to that event or, on a clear, to      *)
(* empty; an earlier event never comes back.                               *)
(***************************************************************************)
PublishedInStep == events' # events /\ events' # <<>>

C20_SlotHoldsLatest ==
  [][ /\ PublishedInStep => status' = events'[Len(events')]
      /\ status' # status =>
           \/ status' = NoStatus /\ ~PublishedInStep
           \/ PublishedInStep /\ status' = events'[Len(events')] ]_vars

\* the banner was closed after the final event of a Subscribe/Redeem
C20_Witness ==
  /\ IsFlow
  /\ Ended
  /\ Published
  /\ status = NoStatus

(***************************************************************************)
(* C21.  Once a price read of the refresh, the first one included, has     *)
(* returned a non-zero value, the refresh makes no further pause and no    *)
(* further price read.                                                     *)
(***************************************************************************)
C21_NoPollAfterNonZero ==
  (app = "bond" /\ Len(calls) >= 1 /\ calls[1].method = "requestPriceUpdate") =>
    LET reads == PollReads
    IN  /\ \A i \in reads :
             (calls[i].ok /\ calls[i].value # 0) => \A j \in reads : j <= i
        /\ inv.pc \in {"up_sleep", "up_poll"} => inv.latestPrice = 0

(***************************************************************************)
(* C22.  In a Subscribe whose claimCoupon send failed, a StatusEvent of    *)
(* kind info has been published by the time the flow goes on with the      *)
(* subscription steps.                                                     *)
(***************************************************************************)
ClaimCouponFailed ==
  \E i \in 1..Len(calls) :
    /\ calls[i].type = "send"
    /\ calls[i].method = "claimCoupon"
    /\ ~calls[i].ok

C22_ClaimFailureReportedAsInfo ==
  (inv.op = "subscribe" /\ ClaimCouponFailed) =>
    \E k \in 1..Len(events) : events[k].type = "info"

(***************************************************************************)
(* C23.  At every moment the browser holds at most one 30 s interval and   *)
(* at most one 60 s interval of CouponSection; once the component is torn  *)
(* down it holds none, and the last interval to have fired did so while    *)
(* the component was mounted.                                              *)
(***************************************************************************)
C23_OneTimerEachNoneAfterTeardown ==
  /\ Cardinality(section.statusTimers) <= 1
  /\ Cardinality(section.countdownTimers) <= 1
  /\ ~section.mounted => section.statusTimers = {} /\ section.countdownTimers = {}
  /\ section.last.tick \in {"status", "countdown"} => section.mounted

\* torn down while a refresh started by the component was still in flight
C23_Witness ==
  /\ ~section.mounted
  /\ account = NoAccount
  /\ section.runs # {}
  /\ section.statusTimers = {}
  /\ section.countdownTimers = {}

(***************************************************************************)
(* C24.  A step in which the account or the bond balance of the mounted    *)
(* component changes cancels both intervals and creates both anew, and     *)
(* starts a coupon-status refresh for the new account.                     *)
(***************************************************************************)
PropsChanged ==
  /\ section.mounted
  /\ section'.mounted
  /\ account' # account \/ section'.bondBalance # section.bondBalance

C24_BothTimersRestarted ==
  [][ PropsChanged =>
        /\ section'.statusTimers # {}
        /\ section'.statusTimers \cap section.statusTimers = {}
        /\ section'.countdownTimers # {}
        /\ section'.countdownTimers \cap section.countdownTimers = {}
        /\ [acct |-> account', pc |-> "next"] \in section'.runs
        /\ section'.last = Did("none", account') ]_vars

(***************************************************************************)
(* C25.  No step issues a coupon-contract read for, or writes to the       *)
(* snapshot the result of a read made for, an account other than the       *)
(* active one; after the teardown no step does either for any account.     *)
(***************************************************************************)
C25_NoStaleAccount ==
  section.last.acct # NoAccount => section.last.acct = account

(***************************************************************************)
(* C26.  No handler issues a remote call while the network of the wallet   *)
(* is not the configured one: a step that leaves a handler awaiting a      *)
(* remote read or send is taken on Sepolia only, also in a flow that was   *)
(* started before the network changed.                                     *)
(***************************************************************************)
\* at this position the handler awaits the remote call it has just issued
AwaitsRemote(pc) == pc \notin {"idle", "done", "up_sleep", "sub_claimed"}

C26_NoCallOnWrongNetwork ==
  [][ (inv' # inv /\ AwaitsRemote(inv'.pc)) => chainId' = SEPOLIA_CHAIN_ID ]_vars

(***************************************************************************)
(* C27, as stated.  In a Subscribe or Redeem invocation no state-changing  *)
(* method is sent twice, and two remote calls of the invocation that are   *)
(* the same call (type, contract, method, account) are both price reads of *)
(* the poll loop.                                                          *)
(***************************************************************************)
SameCall(c, d) ==
  /\ c.type = d.type
  /\ c.contract = d.contract
  /\ c.method = d.method
  /\ c.account = d.account

NoSendTwice ==
  \A i, j \in 1..Len(calls) :
    (i < j /\ calls[i].type = "send" /\ calls[j].type = "send") =>
      calls[i].method # calls[j].method

C27_OnlyPollReadsRepeat ==
  IsFlow =>
    /\ NoSendTwice
    /\ LET reads == PollReads
       IN  \A i, j \in 1..Len(calls) :
             (i < j /\ SameCall(calls[i], calls[j])) => (i \in reads /\ j \in reads)

(***************************************************************************)
(* C27, as amended.  In a Subscribe or Redeem invocation no state-changing *)
(* method is sent twice (so a send that failed is not sent again), and     *)
(* when a remote call of the invocation is made a second time, the second  *)
(* one is a price read of the poll loop or a read of the display refresh   *)
(* (fetchData) that follows the accepted subscribe/redeem.                 *)
(***************************************************************************)
\* call j belongs to the fetchData that follows the accepted transfer
InTrailingRefresh(j) ==
  /\ calls[j].type = "read"
  /\ \E i \in 1..(j - 1) : IsTransfer(calls[i]) /\ calls[i].ok

C27_NoRetry ==
  IsFlow =>
    /\ NoSendTwice
    /\ LET reads == PollReads
       IN  \A i, j \in 1..Len(calls) :
             (i < j /\ SameCall(calls[i], calls[j])) =>
               (i \in reads /\ j \in reads) \/ InTrailingRefresh(j)

\* a Subscribe that re-read the price in its poll loop, whose claimCoupon
\* send failed once, and whose display refresh repeated the balance read
C27_Witness ==
  /\ inv.op = "subscribe"
  /\ Ended
  /\ Cardinality(PollReads) >= 3
  /\ ClaimCouponFailed
  /\ \E i, j \in 1..Len(calls) :
       /\ i < j
       /\ SameCall(calls[i], calls[j])
       /\ calls[i].method = "balanceOf"
       /\ InTrailingRefresh(j)

(***************************************************************************)
(* C28.  In a Subscribe of BondApp the holder is classified by one read of *)
(* the bond balance, made before any coupon or subscribe send and not made *)
(* again before the last of them; at most one of claimCoupon and           *)
(* initializeClaim is sent; claimCoupon is sent only after that read       *)
(* returned more than 0 and the canClaim read, the call right before it,   *)
(* returned true; initializeClaim only after that read returned 0.         *)
(***************************************************************************)
IsCouponSend(c, method) ==
  c.type = "send" /\ c.contract = "couponPayment" /\ c.method = method

\* the bond balance reads made before call i
HolderReadsBefore(i) ==
  {h \in 1..(i - 1) : IsRead(calls[h], "bondToken", "balanceOf")}

C28_ClassifiedOnce ==
  (app = "bond" /\ inv.op = "subscribe") =>
    /\ ~ \E i, j \in 1..Len(calls) :
           IsCouponSend(calls[i], "claimCoupon") /\ IsCouponSend(calls[j], "initializeClaim")
    /\ \A i \in 1..Len(calls) :
         /\ (calls[i].type = "send" /\ calls[i].contract # "priceOracle") =>
              /\ Cardinality(HolderReadsBefore(i)) = 1
              /\ \A h \in HolderReadsBefore(i) : calls[h].ok /\ calls[h].account = inv.acct
         /\ IsCouponSend(calls[i], "claimCoupon") =>
              /\ \A h \in HolderReadsBefore(i) : calls[h].value > 0
              /\ IsRead(calls[i - 1], "couponPayment", "canClaim")
              /\ calls[i - 1].ok
              /\ calls[i - 1].value = 1
         /\ IsCouponSend(calls[i], "initializeClaim") =>
              \A h \in HolderReadsBefore(i) : calls[h].value = 0

\* a returning holder whose coupon was claimed and whose subscription ended
\* after the display refresh had read the bond balance again
C28_Witness ==
  /\ app = "bond"
  /\ inv.op = "subscribe"
  /\ Ended
  /\ \E i \in 1..Len(calls) : IsCouponSend(calls[i], "claimCoupon") /\ calls[i].ok
  /\ \E i \in 1..Len(calls) : IsTransfer(calls[i]) /\ calls[i].ok
  /\ Cardinality(HolderReadsBefore(Len(calls) + 1)) = 2

(***************************************************************************)
(* C29.  Every subscribe or redeem transaction that is sent carries a      *)
(* base-unit amount greater than 0.                                        *)
(***************************************************************************)
C29_PositiveAmountSent ==
  \A i \in 1..Len(calls) : IsTransfer(calls[i]) => calls[i].amount > 0

(***************************************************************************)
(* C30.  Approve grants the base-unit quantity that Subscribe and Redeem   *)
(* require for the same amount string: a flow started for the account and  *)
(* the amount whose approval is held untouched does not end with the       *)
(* InsufficientAllowance error, and the amount it has converted equals the *)
(* allowance granted, whatever decimals() returned.                        *)
(***************************************************************************)
\* the invocation is Subscribe or Redeem, run on the approval for its amount
FlowOnApproval ==
  /\ inv.op \in {"subscribe", "redeem"}
  /\ ApprovedFor(inv.acct, FlowToken(app, inv.op), inv.amt)

C30_ApprovedAmountSuffices ==
  FlowOnApproval =>
    /\ Published => ~IsInsufficientAllowance(LastEvent)
    /\ inv.pc \in {"balance", "allowance"} =>
         inv.amountInWei = Held(inv.acct, FlowToken(app, inv.op)).value

(***************************************************************************)
(* C31.  Every remote call of a Subscribe or Redeem invocation that names  *)
(* an account (the reads of balances, allowance and coupon status, every   *)
(* send, those of the nested price refresh and of the closing display      *)
(* refresh included) names the account the invocation started with, also   *)
(* after accountsChanged has replaced the connected account.               *)
(***************************************************************************)
\* the calls of invocation i, recorded in cs, all name the account of i
OwnAccountOnly(i, cs) ==
  i.op \in {"subscribe", "redeem"} =>
    \A k \in 1..Len(cs) : cs[k].account \in {i.acct, NoAccount}

C31_CallsKeepStartAccount ==
  /\ OwnAccountOnly(inv, calls)
  /\ \A k \in 1..Len(others) : OwnAccountOnly(others[k].inv, others[k].calls)

\* the account was replaced while a Subscribe waited, and the subscribe was
\* then sent, and accepted, for the account of the click
C31_Witness ==
  /\ inv.op = "subscribe"
  /\ account \notin {inv.acct, NoAccount}
  /\ \E k \in 1..Len(calls) :
       /\ calls[k].type = "send" /\ calls[k].method = "subscribe" /\ calls[k].ok
       /\ calls[k].account = inv.acct
  /\ \E k \in 1..Len(calls) : IsRead(calls[k], "usdt", "allowance")

(***************************************************************************)
(* C32.  When every remote call returns or fails, an invocation of         *)
(* Subscribe, Redeem, Approve or the price refresh reaches its last        *)
(* statement, and the last StatusEvent it has published by then is a       *)
(* success or an error, never a loading event.                             *)
(***************************************************************************)
\* one of the four handlers has run its last statement
HandlerEnded ==
  inv.pc = "done" /\ inv.op \in {"subscribe", "redeem", "approve", "updatePrice"}

EndsTerminal == HandlerEnded => (Published /\ LastEvent.type \in {"success", "error"})

C32_TerminatesWithTerminalEvent ==
  /\ []EndsTerminal
  /\ InFlight(inv) ~> (inv.pc = "done")

\* a price refresh that polled until the timeout has ended, with a success
C32_Witness ==
  /\ HandlerEnded
  /\ inv.op = "updatePrice"
  /\ inv.elapsed >= PollTimeoutMs
  /\ LastEvent.type = "success"

(***************************************************************************)
(* C33.  The balances on display are written only by a fetchData call made *)
(* later than the call whose balances they replace, and only with balances *)
(* read for the account connected at the time of the write.                *)
(***************************************************************************)
C33_SnapshotFromLatestRefresh ==
  [][ refresh'.shown # refresh.shown =>
        /\ refresh'.shown.run > refresh.shown.run
        /\ refresh'.shown.acct = account' ]_vars

(***************************************************************************)
(* C34.  Once a call of fetchCouponStatus has ended, it has set either all *)
(* the fields of the coupon snapshot (nextClaimTime, isInitialized,        *)
(* canClaim, couponAmount) or none of them: a call that failed part-way    *)
(* has left the snapshot as it found it.                                   *)
(***************************************************************************)
SnapshotFields == {"nextClaimTime", "isInitialized", "canClaim", "couponAmount"}

C34_SnapshotFromOneRefresh ==
  coupon.pc = "idle" => coupon.written \in {{}, SnapshotFields}

(***************************************************************************)
(* C35.  When handleCheckStatus has published its info event and its call  *)
(* of fetchCouponStatus got all three reads, the next claim time, the      *)
(* coupon amount and the claimable flag in the message are the ones that   *)
(* call obtained.                                                          *)
(***************************************************************************)
CheckPublished ==
  /\ coupon.manual.op = "check"
  /\ coupon.manual.pc = "done"
  /\ coupon.written = SnapshotFields

C35_CheckReportsItsRefresh ==
  CheckPublished =>
    LET e == events[Len(events)]
    IN  /\ e.type = "info"
        /\ e.message = statusMsg(coupon.nextClaimTime, coupon.couponAmount,
                                 coupon.canClaim, e.message[8])

(***************************************************************************)
(* C36.  An invocation of handleClaimCoupon sends claimCoupon at most      *)
(* once, and only if canClaim was true in the render it was clicked in.    *)
(* Then it publishes the loading event and, when the send has returned,    *)
(* exactly one more event: success with the transaction hash of the send,  *)
(* or error with the failure message.  With canClaim false it publishes    *)
(* nothing and sends nothing.                                              *)
(***************************************************************************)
ClaimLoading == Ev("loading", <<"Claiming coupon...">>, NoTx)

ClaimTerminal(e, call) ==
  \/ /\ call.ok
     /\ e.type = "success"
     /\ e.txHash = call.value
     /\ e.txHash # NoTx
  \/ /\ ~call.ok
     /\ e = Ev("error", <<RemoteError>>, NoTx)

C36_ClaimSendsOnceWhenClaimable ==
  coupon.manual.op = "claim" =>
    IF coupon.manual.seen.canClaim
    THEN \/ /\ coupon.manual.pc = "send"
            /\ events = <<ClaimLoading>>
            /\ calls = <<>>
         \/ /\ coupon.manual.pc = "done"
            /\ Len(calls) = 1
            /\ calls[1].type = "send"
            /\ calls[1].method = "claimCoupon"
            /\ calls[1].account = account
            /\ Len(events) = 2
            /\ events[1] = ClaimLoading
            /\ ClaimTerminal(events[2], calls[1])
            /\ status = events[2]
    ELSE /\ coupon.manual.pc = "done"
         /\ events = <<>>
         /\ calls = <<>>

C36_Witness ==
  /\ coupon.manual.op = "claim"
  /\ coupon.manual.pc = "done"
  /\ coupon.manual.seen.canClaim
  /\ Len(events) = 2
  /\ events[2].type = "success"
  /\ coupon.pc # "idle"

(***************************************************************************)
(* C37.  In App, a Subscribe pressed while the cached price is not         *)
(* positive ends in that step with an error event and without a remote     *)
(* call; the failure of the price read of fetchData and disconnectWallet   *)
(* each leave a cached price that is not positive.                         *)
(***************************************************************************)
PriceNotPositive(p) == NonPositive(parseFloat(p))

SubscribePressed == Quiet /\ inv'.op = "subscribe"

PriceReadFailed ==
  /\ inv.pc = "fd_price"
  /\ Len(calls') = Len(calls) + 1
  /\ ~calls'[Len(calls')].ok

Disconnected == account # NoAccount /\ account' = NoAccount

====
